---- MODULE Spec2Model ----
(***************************************************************************)
(* Model of the research-session lifecycle of the AI Deep Research         *)
(* Assistant: the pure session state machine (lib/state-machine),          *)
(* the API usage guard (lib/api-usage-guard) and the research              *)
(* orchestrator (lib/research-orchestrator) running over a record store.   *)
(***************************************************************************)
EXTENDS Integers, Sequences, FiniteSets, TLC

(***************************************************************************)
(* Bounds of the model                                                     *)
(***************************************************************************)
MaxQ == 2          \* longest question list a provider answer carries
MaxCalls == 3      \* orchestrator requests issued in one behaviour
MaxSnapRefs == 3   \* refinements of a synthetic state-machine snapshot
MaxGuardCalls == 3 \* usage-guard calls issued in one behaviour of the guard harness

\* request slots: the requests that can be in flight at the same time
ReqIds == {1, 2}
SessionIds == {"s1"}
Users == {"u1", "u2"}
\* users whose account carries an e-mail address
UsersWithEmail == {"u1"}

(***************************************************************************)
(* types.ts: ResearchSessionStatus                                         *)
(***************************************************************************)
CREATED == "CREATED"
AWAITING_REFINEMENTS == "AWAITING_REFINEMENTS"
REFINEMENTS_IN_PROGRESS == "REFINEMENTS_IN_PROGRESS"
REFINEMENTS_COMPLETE == "REFINEMENTS_COMPLETE"
RUNNING_RESEARCH == "RUNNING_RESEARCH"
COMPLETED == "COMPLETED"
FAILED == "FAILED"

ResearchSessionStatus ==
  {CREATED, AWAITING_REFINEMENTS, REFINEMENTS_IN_PROGRESS,
   REFINEMENTS_COMPLETE, RUNNING_RESEARCH, COMPLETED, FAILED}

\* absent optional text fields (null / undefined)
NULL == "null"
\* the empty string '' (falsy, but not null)
EMPTY == ""
ResearchFailed == "Research failed"
OpenAIText == "openai result"
GeminiText == "gemini result"

\* JavaScript truthiness of an optional string
Truthy(s) == s # NULL /\ s # EMPTY

(***************************************************************************)
(* state-machine: ResearchSessionStateMachine                              *)
(* A session snapshot (ResearchSessionData) is a record with the fields    *)
(* the guards read: refinements (sequence of [questionIndex, answer]),     *)
(* refinedPrompt, openaiResult, geminiResult.                              *)
(***************************************************************************)
\* variant: only a null answer counts as unanswered
UnansweredNullOnly(refs) == {i \in DOMAIN refs : refs[i].answer = NULL}

Unanswered(refs) == {i \in DOMAIN refs : ~Truthy(refs[i].answer)}

\* the transitions table, in source order; cond is the entry's condition
transitions(session) ==
  << [from |-> CREATED, to |-> AWAITING_REFINEMENTS, cond |-> TRUE],
     [from |-> AWAITING_REFINEMENTS, to |-> REFINEMENTS_IN_PROGRESS,
      cond |-> Len(session.refinements) > 0],
     [from |-> REFINEMENTS_IN_PROGRESS, to |-> REFINEMENTS_COMPLETE,
      cond |-> Cardinality(Unanswered(session.refinements)) = 0
               /\ Len(session.refinements) > 0],
     [from |-> REFINEMENTS_COMPLETE, to |-> RUNNING_RESEARCH,
      cond |-> Truthy(session.refinedPrompt)],
     [from |-> RUNNING_RESEARCH, to |-> COMPLETED,
      cond |-> Truthy(session.openaiResult) /\ Truthy(session.geminiResult)],
     [from |-> CREATED, to |-> FAILED, cond |-> FALSE],
     [from |-> AWAITING_REFINEMENTS, to |-> FAILED, cond |-> FALSE],
     [from |-> REFINEMENTS_IN_PROGRESS, to |-> FAILED, cond |-> FALSE],
     [from |-> REFINEMENTS_COMPLETE, to |-> FAILED, cond |-> FALSE],
     [from |-> RUNNING_RESEARCH, to |-> FAILED, cond |-> FALSE] >>

\* variant: the table entry is matched on its target state only
FindTransitionByTarget(tbl, from, to) ==
  LET hits == {i \in DOMAIN tbl : tbl[i].to = to}
  IN IF hits = {} THEN 0 ELSE CHOOSE i \in hits : \A j \in hits : i <= j

\* Array.prototype.find: index of the first matching table entry, 0 if none
FindTransition(tbl, from, to) ==
  LET hits == {i \in DOMAIN tbl : tbl[i].from = from /\ tbl[i].to = to}
  IN IF hits = {} THEN 0 ELSE CHOOSE i \in hits : \A j \in hits : i <= j

\* variant: the transition to FAILED is looked up in the table like the
\* others, where its condition is () => false
canTransitionTableOnly(from, to, session) ==
  IF from = to THEN TRUE
  ELSE LET tbl == transitions(session)
           k == FindTransition(tbl, from, to)
       IN IF k = 0 THEN FALSE ELSE tbl[k].cond

canTransition(from, to, session) ==
  IF from = to THEN TRUE
  ELSE IF to = FAILED THEN TRUE
  ELSE LET tbl == transitions(session)
           k == FindTransition(tbl, from, to)
       IN IF k = 0 THEN FALSE ELSE tbl[k].cond

(***************************************************************************)
(* api-usage-guard: API_LIMITS (values of the environment configuration)   *)
(***************************************************************************)
OPENAI_DAILY_LIMIT == 2
GEMINI_DAILY_LIMIT == 2
OPENAI_MONTHLY_LIMIT == 3
GEMINI_MONTHLY_LIMIT == 3
OPENAI_GLOBAL_DAILY_LIMIT == 3
GEMINI_GLOBAL_DAILY_LIMIT == 3

\* messages are token sequences; <<>> is "no message" (null)
NoMsg == << >>
DailyOpenAIReason == << "Daily OpenAI limit reached" >>
MonthlyOpenAIReason == << "Monthly OpenAI limit reached" >>
DailyGeminiReason == << "Daily Gemini limit reached" >>
MonthlyGeminiReason == << "Monthly Gemini limit reached" >>
UnavailableReason == << "Service temporarily unavailable" >>
LimitReachedMsg == << "API usage limit reached" >>
OpenAIErrorMsg == << "OpenAI API error" >>
\* [...new Set(seq)]: the first occurrence of each element, in order
RECURSIVE Dedup(_)
Dedup(seq) ==
  IF seq = << >> THEN << >>
  ELSE LET front == Dedup(SubSeq(seq, 1, Len(seq) - 1))
           last == seq[Len(seq)]
       IN IF \E i \in DOMAIN front : front[i] = last THEN front
          ELSE Append(front, last)

\* variant: every table entry leaving the current state is pushed, whatever
\* its condition
getNextStatesAnyCondition(currentState, session) ==
  LET IsFrom(t) == t.from = currentState
      open == SelectSeq(transitions(session), IsFrom)
      pushed == [i \in DOMAIN open |-> open[i].to]
      failed == IF currentState # FAILED THEN << FAILED >> ELSE << >>
  IN Dedup(<< currentState >> \o pushed \o failed)

getNextStates(currentState, session) ==
  LET IsFrom(t) == t.from = currentState
      Holds(t) == t.cond
      open == SelectSeq(SelectSeq(transitions(session), IsFrom), Holds)
      pushed == [i \in DOMAIN open |-> open[i].to]
      failed == IF currentState # FAILED THEN << FAILED >> ELSE << >>
  IN Dedup(<< currentState >> \o pushed \o failed)

\* variant: only the current state is removed from the next states
getNextStateKeepFailed(sess) ==
  LET currentState == sess.status
      NotCurrent(st) == st # currentState
      progressionStates == SelectSeq(getNextStates(currentState, sess), NotCurrent)
  IN IF Len(progressionStates) = 0 THEN NULL ELSE progressionStates[1]

\* getNextState(session): the session snapshot carries its status
getNextState(sess) ==
  LET currentState == sess.status
      Progress(st) == st # currentState /\ st # FAILED
      progressionStates == SelectSeq(getNextStates(currentState, sess), Progress)
  IN IF Len(progressionStates) = 0 THEN NULL ELSE progressionStates[1]

SessionNotFoundMsg == << "Session not found or access denied" >>
RefinementNotFoundMsg == << "Refinement question not found" >>

\* calendar dates (setHours(0,0,0,0) of a Date): year, month, day
Date(y, m, d) == [y |-> y, m |-> m, d |-> d]
DateGT(a, b) ==
  \/ a.y > b.y
  \/ a.y = b.y /\ a.m > b.m
  \/ a.y = b.y /\ a.m = b.m /\ a.d > b.d

\* prisma.apiUsage row; exists = FALSE stands for "no row for this user"
NoUsage(today) ==
  [exists |-> FALSE, openaiRequestsToday |-> 0, openaiRequestsMonth |-> 0,
   geminiRequestsToday |-> 0, geminiRequestsMonth |-> 0, lastResetDate |-> today]

\* findUnique, then create({userId}) when there is no row
LoadOrCreateUsage(u, today) ==
  IF u.exists THEN u ELSE [NoUsage(today) EXCEPT !.exists = TRUE]

\* variant: the daily reset clears the OpenAI counter only
DailyResetOpenAIOnly(u, today) ==
  IF DateGT(today, u.lastResetDate)
  THEN [u EXCEPT !.openaiRequestsToday = 0, !.lastResetDate = today]
  ELSE u

\* "Reset daily counters if it's a new day"
DailyReset(u, today) ==
  IF DateGT(today, u.lastResetDate)
  THEN [u EXCEPT !.openaiRequestsToday = 0, !.geminiRequestsToday = 0,
                 !.lastResetDate = today]
  ELSE u

\* variant: the month is compared with the lastResetDate the daily reset
\* has just written
MonthlyResetAfterDaily(u, lastReset, today) ==
  IF today.m # u.lastResetDate.m \/ today.y # u.lastResetDate.y
  THEN [u EXCEPT !.openaiRequestsMonth = 0, !.geminiRequestsMonth = 0,
                 !.lastResetDate = today]
  ELSE u

\* "Reset monthly counter if it's a new month": lastReset is the date read
\* before the daily reset, u the row after it
MonthlyReset(u, lastReset, today) ==
  IF today.m # lastReset.m \/ today.y # lastReset.y
  THEN [u EXCEPT !.openaiRequestsMonth = 0, !.geminiRequestsMonth = 0,
                 !.lastResetDate = today]
  ELSE u

\* the store operations of a guard call, any of which can fail
FailPoints == {"findUnique", "create", "dailyUpdate", "monthlyUpdate", "aggregate"}
Healthy == "none"

NewMonth(today, lastReset) == today.m # lastReset.m \/ today.y # lastReset.y

\* the roll-over part of canMake*Request where the store operation failAt
\* fails: the row as the operations before it left it, and whether it threw
RollOver(u, today, failAt) ==
  IF failAt = "findUnique" \/ (~u.exists /\ failAt = "create")
  THEN [row |-> u, threw |-> TRUE]
  ELSE LET u0 == LoadOrCreateUsage(u, today)
           u1 == DailyReset(u0, today)
       IN IF DateGT(today, u0.lastResetDate) /\ failAt = "dailyUpdate"
            THEN [row |-> u0, threw |-> TRUE]
          ELSE IF NewMonth(today, u0.lastResetDate) /\ failAt = "monthlyUpdate"
            THEN [row |-> u1, threw |-> TRUE]
          ELSE [row |-> MonthlyReset(u1, u0.lastResetDate, today), threw |-> FALSE]

RECURSIVE SumOver(_, _, _)
SumOver(f, S, field) ==
  IF S = {} THEN 0
  ELSE LET x == CHOOSE x \in S : TRUE
       IN f[x][field] + SumOver(f, S \ {x}, field)

\* variant: the limits are compared with > instead of >=
canMakeOpenAIRequestStrict(usg, userId) ==
  LET u == usg[userId]
  IN IF u.openaiRequestsToday > OPENAI_DAILY_LIMIT
       THEN [allowed |-> FALSE, reason |-> DailyOpenAIReason]
     ELSE IF u.openaiRequestsMonth > OPENAI_MONTHLY_LIMIT
       THEN [allowed |-> FALSE, reason |-> MonthlyOpenAIReason]
     ELSE IF SumOver(usg, DOMAIN usg, "openaiRequestsToday")
               > OPENAI_GLOBAL_DAILY_LIMIT
       THEN [allowed |-> FALSE, reason |-> UnavailableReason]
     ELSE [allowed |-> TRUE, reason |-> NoMsg]

\* canMakeOpenAIRequest: the decision, on the store after the roll-over
canMakeOpenAIRequest(usg, userId) ==
  LET u == usg[userId]
  IN IF u.openaiRequestsToday >= OPENAI_DAILY_LIMIT
       THEN [allowed |-> FALSE, reason |-> DailyOpenAIReason]
     ELSE IF u.openaiRequestsMonth >= OPENAI_MONTHLY_LIMIT
       THEN [allowed |-> FALSE, reason |-> MonthlyOpenAIReason]
     ELSE IF SumOver(usg, DOMAIN usg, "openaiRequestsToday")
               >= OPENAI_GLOBAL_DAILY_LIMIT
       THEN [allowed |-> FALSE, reason |-> UnavailableReason]
     ELSE [allowed |-> TRUE, reason |-> NoMsg]

canMakeGeminiRequest(usg, userId) ==
  LET u == usg[userId]
  IN IF u.geminiRequestsToday >= GEMINI_DAILY_LIMIT
       THEN [allowed |-> FALSE, reason |-> DailyGeminiReason]
     ELSE IF u.geminiRequestsMonth >= GEMINI_MONTHLY_LIMIT
       THEN [allowed |-> FALSE, reason |-> MonthlyGeminiReason]
     ELSE IF SumOver(usg, DOMAIN usg, "geminiRequestsToday")
               >= GEMINI_GLOBAL_DAILY_LIMIT
       THEN [allowed |-> FALSE, reason |-> UnavailableReason]
     ELSE [allowed |-> TRUE, reason |-> NoMsg]

\* variant: the catch denies the request
FailClosed == [allowed |-> FALSE, reason |-> << "Usage store error" >>]

\* catch (error): "Fail open - allow request but log error"
FailOpen == [allowed |-> TRUE, reason |-> NoMsg]

\* canMakeOpenAIRequest(userId) as a whole, try and catch: the store it leaves
\* and the value it returns; the aggregate runs only past the user's limits
CheckOpenAI(usg, userId, today, failAt) ==
  LET ro == RollOver(usg[userId], today, failAt)
      usg1 == [usg EXCEPT ![userId] = ro.row]
      aggregates == /\ ro.row.openaiRequestsToday < OPENAI_DAILY_LIMIT
                    /\ ro.row.openaiRequestsMonth < OPENAI_MONTHLY_LIMIT
      threw == ro.threw \/ (failAt = "aggregate" /\ aggregates)
  IN [usage |-> usg1, threw |-> threw,
      result |-> IF threw THEN FailOpen ELSE canMakeOpenAIRequest(usg1, userId)]

CheckGemini(usg, userId, today, failAt) ==
  LET ro == RollOver(usg[userId], today, failAt)
      usg1 == [usg EXCEPT ![userId] = ro.row]
      aggregates == /\ ro.row.geminiRequestsToday < GEMINI_DAILY_LIMIT
                    /\ ro.row.geminiRequestsMonth < GEMINI_MONTHLY_LIMIT
      threw == ro.threw \/ (failAt = "aggregate" /\ aggregates)
  IN [usage |-> usg1, threw |-> threw,
      result |-> IF threw THEN FailOpen ELSE canMakeGeminiRequest(usg1, userId)]

\* variant: the upsert increments the today-count only
recordOpenAIRequestTodayOnly(u, today) ==
  IF u.exists
  THEN [u EXCEPT !.openaiRequestsToday = @ + 1]
  ELSE [NoUsage(today) EXCEPT !.exists = TRUE, !.openaiRequestsToday = 1,
                              !.openaiRequestsMonth = 1]

\* recordOpenAIRequest: upsert with increment
recordOpenAIRequest(u, today) ==
  IF u.exists
  THEN [u EXCEPT !.openaiRequestsToday = @ + 1, !.openaiRequestsMonth = @ + 1]
  ELSE [NoUsage(today) EXCEPT !.exists = TRUE, !.openaiRequestsToday = 1,
                              !.openaiRequestsMonth = 1]

recordGeminiRequest(u, today) ==
  IF u.exists
  THEN [u EXCEPT !.geminiRequestsToday = @ + 1, !.geminiRequestsMonth = @ + 1]
  ELSE [NoUsage(today) EXCEPT !.exists = TRUE, !.geminiRequestsToday = 1,
                              !.geminiRequestsMonth = 1]

\* record*Request as a whole: a failed upsert is caught and leaves the store
RecordOpenAI(usg, userId, today, failAt) ==
  IF failAt = "upsert" THEN usg
  ELSE [usg EXCEPT ![userId] = recordOpenAIRequest(@, today)]

RecordGemini(usg, userId, today, failAt) ==
  IF failAt = "upsert" THEN usg
  ELSE [usg EXCEPT ![userId] = recordGeminiRequest(@, today)]

(***************************************************************************)
(* The store and the requests in flight                                    *)
(***************************************************************************)
VARIABLES
  session,      \* prisma.researchSession rows, by session id
  refinements,  \* prisma.refinement rows of each session, in creation order
  usage,        \* prisma.apiUsage rows, by user id
  now,          \* the calendar day of the clock
  statusLog,    \* the status values written to each session, in order
  logging,      \* whether the status writes are being logged
  reqs,         \* the orchestrator calls in flight, by request slot
  calls,        \* number of orchestrator calls issued so far
  smIn,         \* state-machine harness: the arguments
  smOut,        \* state-machine harness: the value canTransition returned
  nsOut,        \* state-machine harness: the value getNextStates returned
  nOut,         \* state-machine harness: the value getNextState returned
  faulty,       \* whether the usage store and the report generator can fail
  ug            \* usage-guard harness: the last call and what it returned

vars ==
  << session, refinements, usage, now, statusLog, logging, reqs, calls, smIn, smOut,
     nsOut, nOut, faulty, ug >>
storeVars == << session, refinements, usage, now, statusLog >>
\* what no orchestrator step changes
smVars == << smIn, smOut, nsOut, nOut, logging, faulty, ug >>

InitialPrompt == "prompt X"
RefinedMarker == "[REFINED]"
NoPrompt == << >>
\* texts of the questions of a provider answer, by position in the answer
QuestionText == << "What aspect?", "What audience?", "What depth?", "What else?" >>
AnswerText == "an answer"

NoSession ==
  [exists |-> FALSE, userId |-> NULL, status |-> NULL, refinedPrompt |-> NoPrompt,
   openaiResult |-> NULL, geminiResult |-> NULL, pdfGeneratedAt |-> FALSE,
   emailSentAt |-> FALSE, errorMessage |-> NoMsg]

\* DeepResearchResponse of the first provider call: refinement questions
\* (their indices, in the order given), a direct result, or neither
\* the lists 0..n-1 the system prompt asks for, and lists a provider can
\* send all the same: a repeated index, an index that does not start at 0,
\* indices out of order
RegularLists == {[i \in 1..n |-> i - 1] : n \in 0..MaxQ}
IrregularLists == {<< 0, 0 >>, << 1 >>, << 1, 0 >>}
QuestionLists == RegularLists \cup IrregularLists
\* the question indices a caller submits answers for
QuestionIndices == 0..MaxQ

Responses ==
  {[kind |-> "refine", qs |-> q] : q \in QuestionLists}
    \cup {[kind |-> "result", qs |-> << >>], [kind |-> "none", qs |-> << >>]}

NoResponse == [kind |-> "none", qs |-> << >>]
NoDecision == [allowed |-> TRUE, reason |-> NoMsg]
\* a branch of Promise.allSettled that has not settled yet
Pending == [status |-> "pending", value |-> NULL]

Idle ==
  [op |-> "idle", pc |-> "idle", sid |-> NULL, uid |-> NULL, qi |-> 0,
   canMakeRequest |-> NoDecision,
   canMakeOpenAI |-> NoDecision, canMakeGemini |-> NoDecision, resp |-> NoResponse,
   snap |-> << >>, oOut |-> Pending, gOut |-> Pending, err |-> NoMsg,
   raised |-> FALSE, invoked |-> 0, recorded |-> 0, faults |-> 0,
   delivery |-> "none", served |-> FALSE]

Today == Date(1, 1, 1)

\* usage rows a user can have from earlier sessions of the same day
InitialUsage ==
  {NoUsage(Today)} \cup
  {[exists |-> TRUE, openaiRequestsToday |-> o, openaiRequestsMonth |-> o,
    geminiRequestsToday |-> g, geminiRequestsMonth |-> g, lastResetDate |-> Today] :
     o \in 0..OPENAI_DAILY_LIMIT, g \in {0, GEMINI_DAILY_LIMIT}}

\* the state-machine harness at rest
NoCall ==
  [from |-> CREATED, to |-> CREATED,
   session |-> [refinements |-> << >>, refinedPrompt |-> NULL,
                openaiResult |-> NULL, geminiResult |-> NULL]]
NoResult == [done |-> FALSE, value |-> FALSE]
NoStates == [done |-> FALSE, value |-> << >>]
NoState == [done |-> FALSE, value |-> NULL]

\* the provider a guard method is about
Providers == {"openai", "gemini"}
ProviderOf(op) ==
  IF op \in {"canMakeOpenAIRequest", "recordOpenAIRequest"} THEN "openai" ELSE "gemini"
IsCheck(op) == op \in {"canMakeOpenAIRequest", "canMakeGeminiRequest"}

\* no earlier check to compare a check with
NoCheck == [made |-> FALSE, at |-> Today, result |-> NoDecision]

\* the usage-guard harness at rest
NoGuardCall ==
  [op |-> "none", user |-> NULL, failAt |-> Healthy, at |-> Today,
   before |-> [u \in Users |-> NoUsage(Today)], result |-> NoDecision, n |-> 0,
   same |-> TRUE, fresh |-> FALSE,
   checks |-> [u \in Users |-> [p \in Providers |-> NoCheck]], prior |-> NoCheck]

\* the empty store, no call in flight
Start ==
  /\ session = [s \in SessionIds |-> NoSession]
  /\ refinements = [s \in SessionIds |-> << >>]
  /\ usage \in {f \in [Users -> InitialUsage] : f["u2"] = NoUsage(Today)}
  /\ now = Today
  /\ statusLog = [s \in SessionIds |-> << >>]
  /\ reqs = [r \in ReqIds |-> Idle]
  /\ calls = 0
  /\ smIn = NoCall
  /\ smOut = NoResult
  /\ nsOut = NoStates
  /\ nOut = NoState
  /\ ug = NoGuardCall

\* overlapping requests, status writes not logged
Init == Start /\ logging = FALSE /\ faulty = FALSE

\* sequential requests, with the log of the status writes
SeqInit == Start /\ logging = TRUE /\ faulty = FALSE

(***************************************************************************)
(* research-orchestrator: ResearchOrchestrator.startSession                *)
(* One action per awaited store / provider operation.                      *)
(***************************************************************************)
Req(r) == reqs[r]
\* a new call takes the first free request slot
FreeSlot(r) == reqs[r].pc = "idle" /\ \A q \in ReqIds : q < r => reqs[q].pc # "idle"
SetReq(r, rec) == reqs' = [reqs EXCEPT ![r] = rec]
Done(rec) == [rec EXCEPT !.pc = "done"]
Raise(rec, msg) == [rec EXCEPT !.pc = "done", !.err = msg, !.raised = TRUE]

\* reason || 'API usage limit reached'
OrLimitReached(msg) == IF msg = NoMsg THEN LimitReachedMsg ELSE msg

\* the operations that can fail in this step
Faults(points) == IF faulty THEN points \cup {Healthy} ELSE {Healthy}
Count(b) == IF b THEN 1 ELSE 0

\* every write of a session's status is appended to the session's log
LogStatus(sid, st) ==
  statusLog' = IF logging THEN [statusLog EXCEPT ![sid] = Append(@, st)] ELSE statusLog

\* prisma.researchSession.create, status CREATED
StartSession(r, userId) ==
  /\ FreeSlot(r)
  /\ calls < MaxCalls
  /\ \E sid \in SessionIds :
       /\ ~session[sid].exists
       /\ session' = [session EXCEPT ![sid] =
                        [NoSession EXCEPT !.exists = TRUE, !.userId = userId,
                                          !.status = CREATED]]
       /\ LogStatus(sid, CREATED)
       /\ SetReq(r, [Idle EXCEPT !.op = "start", !.pc = "ss_guard",
                                 !.sid = sid, !.uid = userId])
  /\ calls' = calls + 1
  /\ UNCHANGED << refinements, usage, now, smVars >>

\* ApiUsageGuard.canMakeOpenAIRequest(userId)
SSGuard(r) ==
  /\ Req(r).pc = "ss_guard"
  /\ \E failAt \in Faults(FailPoints) :
       LET g == CheckOpenAI(usage, Req(r).uid, now, failAt)
       IN /\ usage' = g.usage
          /\ SetReq(r, [Req(r) EXCEPT !.canMakeRequest = g.result,
                          !.faults = @ + Count(g.threw),
                          !.pc = IF g.result.allowed THEN "ss_call" ELSE "ss_denied"])
  /\ UNCHANGED << session, refinements, now, statusLog, calls, smVars >>

\* variant: the denial is persisted but not thrown, the call goes on
SSDeniedNoThrow(r) ==
  /\ Req(r).pc = "ss_denied"
  /\ LET msg == OrLimitReached(Req(r).canMakeRequest.reason)
     IN /\ session' = [session EXCEPT ![Req(r).sid].status = FAILED,
                                      ![Req(r).sid].errorMessage = msg]
        /\ SetReq(r, [Req(r) EXCEPT !.pc = "ss_call", !.err = msg])
  /\ LogStatus(Req(r).sid, FAILED)
  /\ UNCHANGED << refinements, usage, now, calls, smVars >>

\* not allowed: update to FAILED with the reason, then throw
SSDenied(r) ==
  /\ Req(r).pc = "ss_denied"
  /\ LET msg == OrLimitReached(Req(r).canMakeRequest.reason)
     IN /\ session' = [session EXCEPT ![Req(r).sid].status = FAILED,
                                      ![Req(r).sid].errorMessage = msg]
        /\ SetReq(r, [Req(r) EXCEPT !.pc = "ss_catch", !.err = msg])
  /\ LogStatus(Req(r).sid, FAILED)
  /\ UNCHANGED << refinements, usage, now, calls, smVars >>

\* openaiClient.startDeepResearch(initialPrompt) returns a response, then
\* ApiUsageGuard.recordOpenAIRequest(userId) and the branch on the response;
\* or the provider call throws
SSCall(r) ==
  /\ Req(r).pc = "ss_call"
  /\ \/ \E resp \in Responses, failAt \in Faults({"upsert"}) :
          /\ SetReq(r, [Req(r) EXCEPT !.resp = resp, !.invoked = @ + 1,
                          !.recorded = @ + Count(failAt = Healthy),
                          !.faults = @ + Count(failAt # Healthy),
                          !.pc = CASE resp.kind = "refine" -> "ss_create"
                                   [] resp.kind = "result" -> "rr_status"
                                   [] OTHER -> "done"])
          /\ usage' = RecordOpenAI(usage, Req(r).uid, now, failAt)
     \/ /\ SetReq(r, [Req(r) EXCEPT !.pc = "ss_catch", !.err = OpenAIErrorMsg,
                                    !.invoked = @ + 1])
        /\ UNCHANGED usage
  /\ UNCHANGED << session, refinements, now, statusLog, calls, smVars >>

\* variant: the rows are numbered by position, not by the provider's index
NewRefinementsByPosition(qs) ==
  [i \in DOMAIN qs |->
     [questionIndex |-> i - 1, question |-> QuestionText[i], answer |-> NULL]]

\* the rows createMany inserts for a question list
NewRefinements(qs) ==
  [i \in DOMAIN qs |->
     [questionIndex |-> qs[i], question |-> QuestionText[i], answer |-> NULL]]

\* prisma.refinement.createMany: one statement, all rows at once
SSCreateMany(r) ==
  /\ Req(r).pc = "ss_create"
  /\ refinements' = [refinements EXCEPT ![Req(r).sid] =
                       @ \o NewRefinements(Req(r).resp.qs)]
  /\ SetReq(r, [Req(r) EXCEPT !.pc = "ss_await"])
  /\ UNCHANGED << session, usage, now, statusLog, calls, smVars >>

\* update status AWAITING_REFINEMENTS, return session
SSAwaiting(r) ==
  /\ Req(r).pc = "ss_await"
  /\ session' = [session EXCEPT ![Req(r).sid].status = AWAITING_REFINEMENTS]
  /\ SetReq(r, Done(Req(r)))
  /\ LogStatus(Req(r).sid, AWAITING_REFINEMENTS)
  /\ UNCHANGED << refinements, usage, now, calls, smVars >>

\* variant: the catch persists the failure and returns normally
SSCatchSwallow(r) ==
  /\ Req(r).pc = "ss_catch"
  /\ session' = [session EXCEPT ![Req(r).sid].status = FAILED,
                                ![Req(r).sid].errorMessage = Req(r).err]
  /\ SetReq(r, Done(Req(r)))
  /\ LogStatus(Req(r).sid, FAILED)
  /\ UNCHANGED << refinements, usage, now, calls, smVars >>

\* catch (error): update to FAILED with error.message, rethrow
SSCatch(r) ==
  /\ Req(r).pc = "ss_catch"
  /\ session' = [session EXCEPT ![Req(r).sid].status = FAILED,
                                ![Req(r).sid].errorMessage = Req(r).err]
  /\ SetReq(r, Raise(Req(r), Req(r).err))
  /\ LogStatus(Req(r).sid, FAILED)
  /\ UNCHANGED << refinements, usage, now, calls, smVars >>

(***************************************************************************)
(* research-orchestrator: ResearchOrchestrator.runResearch                 *)
(***************************************************************************)
\* update status RUNNING_RESEARCH (before the try block)
RRStatus(r) ==
  /\ Req(r).pc = "rr_status"
  /\ session' = [session EXCEPT ![Req(r).sid].status = RUNNING_RESEARCH]
  /\ SetReq(r, [Req(r) EXCEPT !.pc = "rr_guardO"])
  /\ LogStatus(Req(r).sid, RUNNING_RESEARCH)
  /\ UNCHANGED << refinements, usage, now, calls, smVars >>

\* findUnique(sessionId) for the userId, canMakeOpenAIRequest(userId)
RRGuardOpenAI(r) ==
  /\ Req(r).pc = "rr_guardO"
  /\ \E failAt \in Faults(FailPoints) :
       LET g == CheckOpenAI(usage, session[Req(r).sid].userId, now, failAt)
       IN /\ usage' = g.usage
          /\ SetReq(r, [Req(r) EXCEPT !.pc = "rr_guardG", !.canMakeOpenAI = g.result,
                                      !.faults = @ + Count(g.threw)])
  /\ UNCHANGED << session, refinements, now, statusLog, calls, smVars >>

\* canMakeGeminiRequest(userId), then the test of both decisions
RRGuardGemini(r) ==
  /\ Req(r).pc = "rr_guardG"
  /\ \E failAt \in Faults(FailPoints) :
       LET g == CheckGemini(usage, session[Req(r).sid].userId, now, failAt)
       IN /\ usage' = g.usage
          /\ SetReq(r, [Req(r) EXCEPT !.canMakeGemini = g.result,
                          !.faults = @ + Count(g.threw),
                          !.pc = IF Req(r).canMakeOpenAI.allowed /\ g.result.allowed
                                 THEN "rr_fanout" ELSE "rr_denied"])
  /\ UNCHANGED << session, refinements, now, statusLog, calls, smVars >>

\* variant: the Gemini reason is put first
JoinReasonsGeminiFirst(dO, dG) ==
  (IF dG.allowed THEN NoMsg ELSE dG.reason) \o (IF dO.allowed THEN NoMsg ELSE dO.reason)

\* [openai reason, gemini reason].filter(Boolean).join(' ')
JoinReasons(dO, dG) ==
  (IF dO.allowed THEN NoMsg ELSE dO.reason) \o (IF dG.allowed THEN NoMsg ELSE dG.reason)

\* a provider disallowed: update to FAILED with the joined reasons, throw
RRDenied(r) ==
  /\ Req(r).pc = "rr_denied"
  /\ LET msg == OrLimitReached(JoinReasons(Req(r).canMakeOpenAI, Req(r).canMakeGemini))
     IN /\ session' = [session EXCEPT ![Req(r).sid].status = FAILED,
                                      ![Req(r).sid].errorMessage = msg]
        /\ SetReq(r, [Req(r) EXCEPT !.pc = "rr_catch", !.err = msg])
  /\ LogStatus(Req(r).sid, FAILED)
  /\ UNCHANGED << refinements, usage, now, calls, smVars >>

\* variant: Promise.all, a rejected provider call rejects the whole fan-out
RROpenAIBranchAll(r) ==
  /\ Req(r).pc = "rr_fanout"
  /\ Req(r).oOut = Pending
  /\ \/ /\ \E text \in {OpenAIText, EMPTY} :
             SetReq(r, [Req(r) EXCEPT !.oOut = [status |-> "fulfilled", value |-> text],
                                      !.invoked = @ + 1, !.recorded = @ + 1])
        /\ usage' = [usage EXCEPT ![session[Req(r).sid].userId] =
                       recordOpenAIRequest(@, now)]
     \/ /\ SetReq(r, [Req(r) EXCEPT !.pc = "rr_catch", !.err = OpenAIErrorMsg,
                                    !.invoked = @ + 1])
        /\ UNCHANGED usage
  /\ UNCHANGED << session, refinements, now, statusLog, calls, smVars >>

\* first branch of Promise.allSettled: startDeepResearch(prompt), then
\* recordOpenAIRequest and r.result || ''; or the call rejects
RROpenAIBranch(r) ==
  /\ Req(r).pc = "rr_fanout"
  /\ Req(r).oOut = Pending
  /\ \/ \E text \in {OpenAIText, EMPTY}, failAt \in Faults({"upsert"}) :
          /\ SetReq(r, [Req(r) EXCEPT !.oOut = [status |-> "fulfilled", value |-> text],
                          !.invoked = @ + 1,
                          !.recorded = @ + Count(failAt = Healthy),
                          !.faults = @ + Count(failAt # Healthy)])
          /\ usage' = RecordOpenAI(usage, session[Req(r).sid].userId, now, failAt)
     \/ /\ SetReq(r, [Req(r) EXCEPT !.oOut = [status |-> "rejected", value |-> NULL],
                                    !.invoked = @ + 1])
        /\ UNCHANGED usage
  /\ UNCHANGED << session, refinements, now, statusLog, calls, smVars >>

\* variant: the usage is recorded when the call is issued, so a call that
\* rejects is recorded too
RRGeminiBranchRecordsFirst(r) ==
  /\ Req(r).pc = "rr_fanout"
  /\ Req(r).gOut = Pending
  /\ \E failAt \in Faults({"upsert"}) :
       /\ \/ SetReq(r, [Req(r) EXCEPT !.gOut = [status |-> "fulfilled", value |-> GeminiText],
                                       !.faults = @ + Count(failAt # Healthy)])
          \/ SetReq(r, [Req(r) EXCEPT !.gOut = [status |-> "rejected", value |-> NULL],
                                       !.faults = @ + Count(failAt # Healthy)])
       /\ usage' = RecordGemini(usage, session[Req(r).sid].userId, now, failAt)
  /\ UNCHANGED << session, refinements, now, statusLog, calls, smVars >>

\* second branch: geminiClient.research(prompt), then recordGeminiRequest
RRGeminiBranch(r) ==
  /\ Req(r).pc = "rr_fanout"
  /\ Req(r).gOut = Pending
  /\ \/ \E failAt \in Faults({"upsert"}) :
          /\ SetReq(r, [Req(r) EXCEPT !.gOut = [status |-> "fulfilled", value |-> GeminiText],
                                      !.faults = @ + Count(failAt # Healthy)])
          /\ usage' = RecordGemini(usage, session[Req(r).sid].userId, now, failAt)
     \/ /\ SetReq(r, [Req(r) EXCEPT !.gOut = [status |-> "rejected", value |-> NULL]])
        /\ UNCHANGED usage
  /\ UNCHANGED << session, refinements, now, statusLog, calls, smVars >>

\* status === 'fulfilled' ? value : 'Research failed'
SettledText(out) == IF out.status = "fulfilled" THEN out.value ELSE ResearchFailed

\* variant: the update leaves geminiResult out
RRResultsOpenAIOnly(r) ==
  /\ Req(r).pc = "rr_fanout"
  /\ Req(r).oOut # Pending
  /\ Req(r).gOut # Pending
  /\ session' = [session EXCEPT ![Req(r).sid].openaiResult = SettledText(Req(r).oOut),
                                ![Req(r).sid].status = COMPLETED]
  /\ SetReq(r, [Req(r) EXCEPT !.pc = "rr_pdf"])
  /\ LogStatus(Req(r).sid, COMPLETED)
  /\ UNCHANGED << refinements, usage, now, calls, smVars >>

\* both branches settled: update both results and status COMPLETED
RRResults(r) ==
  /\ Req(r).pc = "rr_fanout"
  /\ Req(r).oOut # Pending
  /\ Req(r).gOut # Pending
  /\ session' = [session EXCEPT ![Req(r).sid].openaiResult = SettledText(Req(r).oOut),
                                ![Req(r).sid].geminiResult = SettledText(Req(r).gOut),
                                ![Req(r).sid].status = COMPLETED]
  /\ SetReq(r, [Req(r) EXCEPT !.pc = "rr_pdf"])
  /\ LogStatus(Req(r).sid, COMPLETED)
  /\ UNCHANGED << refinements, usage, now, calls, smVars >>

PdfErrorMsg == << "PDF generation error" >>

\* variant: a failure of the report generation is caught on its own and the
\* call returns
RRPdfNonFatal(r) ==
  /\ Req(r).pc = "rr_pdf"
  /\ \E failAt \in Faults({"generatePDFBuffer"}) :
       IF failAt = Healthy
       THEN /\ session' = [session EXCEPT ![Req(r).sid].pdfGeneratedAt = TRUE]
            /\ SetReq(r, IF session[Req(r).sid].userId \in UsersWithEmail
                         THEN [Req(r) EXCEPT !.pc = "rr_email"] ELSE Done(Req(r)))
       ELSE /\ UNCHANGED session
            /\ SetReq(r, Done(Req(r)))
  /\ UNCHANGED << refinements, usage, now, statusLog, calls, smVars >>

\* generatePDFBuffer, then update pdfUrl and pdfGeneratedAt; both are inside
\* the try block of runResearch, so when either throws the catch is next
RRPdf(r) ==
  /\ Req(r).pc = "rr_pdf"
  /\ \E failAt \in Faults({"generatePDFBuffer"}) :
       IF failAt = Healthy
       THEN /\ session' = [session EXCEPT ![Req(r).sid].pdfGeneratedAt = TRUE]
            /\ SetReq(r, IF session[Req(r).sid].userId \in UsersWithEmail
                         THEN [Req(r) EXCEPT !.pc = "rr_email"] ELSE Done(Req(r)))
       ELSE /\ UNCHANGED session
            /\ SetReq(r, [Req(r) EXCEPT !.pc = "rr_catch", !.err = PdfErrorMsg])
  /\ UNCHANGED << refinements, usage, now, statusLog, calls, smVars >>

EmailErrorMsg == << "Failed to send email" >>

\* variant: no try/catch around the delivery, its failure reaches the outer
\* catch of runResearch
RREmailFatal(r) ==
  /\ Req(r).pc = "rr_email"
  /\ \/ /\ session' = [session EXCEPT ![Req(r).sid].emailSentAt = TRUE]
        /\ SetReq(r, Done([Req(r) EXCEPT !.delivery = "sent"]))
     \/ /\ UNCHANGED session
        /\ SetReq(r, [Req(r) EXCEPT !.delivery = "failed", !.pc = "rr_catch",
                                    !.err = EmailErrorMsg])
  /\ UNCHANGED << refinements, usage, now, statusLog, calls, smVars >>

\* if (session.user.email): emailService.sendPDF, then update emailSentAt;
\* when either throws, catch (emailError) only logs it
RREmail(r) ==
  /\ Req(r).pc = "rr_email"
  /\ \/ /\ session' = [session EXCEPT ![Req(r).sid].emailSentAt = TRUE]
        /\ SetReq(r, Done([Req(r) EXCEPT !.delivery = "sent"]))
     \/ /\ UNCHANGED session
        /\ SetReq(r, Done([Req(r) EXCEPT !.delivery = "failed"]))
  /\ UNCHANGED << refinements, usage, now, statusLog, calls, smVars >>

\* catch (error): update to FAILED with error.message, rethrow to the caller
RRCatch(r) ==
  /\ Req(r).pc = "rr_catch"
  /\ session' = [session EXCEPT ![Req(r).sid].status = FAILED,
                                ![Req(r).sid].errorMessage = Req(r).err]
  /\ SetReq(r, IF Req(r).op = "start" THEN [Req(r) EXCEPT !.pc = "ss_catch"]
               ELSE Raise(Req(r), Req(r).err))
  /\ LogStatus(Req(r).sid, FAILED)
  /\ UNCHANGED << refinements, usage, now, calls, smVars >>

(***************************************************************************)
(* research-orchestrator: ResearchOrchestrator.submitRefinementAnswer      *)
(***************************************************************************)
\* refinements.find((r) => r.questionIndex === questionIndex): 0 if none
FindRefinement(refs, questionIndex) ==
  LET hits == {i \in DOMAIN refs : refs[i].questionIndex = questionIndex}
  IN IF hits = {} THEN 0 ELSE CHOOSE i \in hits : \A j \in hits : i <= j

\* a session id that no session has, and the ids a caller can pass
NoSuchId == "s0"
SessionArgs == SessionIds \cup {NoSuchId}

\* variant: the session is looked up by its id alone
FindSessionByIdOnly(sessionId, userId) ==
  sessionId \in SessionIds /\ session[sessionId].exists

\* prisma.researchSession.findFirst({ where: { id: sessionId, userId } })
\* finds a row
FindSession(sessionId, userId) ==
  /\ sessionId \in SessionIds
  /\ session[sessionId].exists
  /\ session[sessionId].userId = userId

\* findFirst({id, userId}) with the refinements, find the question, and
\* prisma.refinement.update of its answer (rows are never deleted or
\* re-indexed, so the row read is the row written)
SubmitRefinementAnswer(r, sessionId, userId, questionIndex) ==
  /\ FreeSlot(r)
  /\ calls < MaxCalls
  /\ calls' = calls + 1
  /\ LET rec == [Idle EXCEPT !.op = "submit", !.sid = sessionId, !.uid = userId,
                             !.qi = questionIndex]
         k == FindRefinement(refinements[sessionId], questionIndex)
     IN IF ~FindSession(sessionId, userId)
          THEN /\ SetReq(r, Raise(rec, SessionNotFoundMsg))
               /\ UNCHANGED refinements
        ELSE IF k = 0
          THEN /\ SetReq(r, Raise(rec, RefinementNotFoundMsg))
               /\ UNCHANGED refinements
        ELSE /\ refinements' = [refinements EXCEPT ![sessionId][k].answer = AnswerText]
             /\ SetReq(r, [rec EXCEPT !.pc = "sa_reload"])
  /\ UNCHANGED << session, usage, now, statusLog, smVars >>

\* variant: some() instead of every()
AllAnsweredSome(refs) == (\E i \in DOMAIN refs : Truthy(refs[i].answer)) /\ Len(refs) > 0

\* updatedSession.refinements.every((r) => r.answer) && length > 0
AllAnswered(refs) == (\A i \in DOMAIN refs : Truthy(refs[i].answer)) /\ Len(refs) > 0

\* variant: the decision is taken on the rows as they were read before the
\* request's own update
SAReloadBeforeUpdate(r) ==
  /\ Req(r).pc = "sa_reload"
  /\ LET k == FindRefinement(refinements[Req(r).sid], Req(r).qi)
         snap == [refinements[Req(r).sid] EXCEPT ![k].answer = NULL]
     IN SetReq(r, [Req(r) EXCEPT !.snap = snap,
                     !.pc = IF AllAnswered(snap) THEN "sa_complete" ELSE "sa_progress"])
  /\ UNCHANGED << storeVars, calls, smVars >>

\* findUnique with the refinements: the snapshot the decision is taken on
SAReload(r) ==
  /\ Req(r).pc = "sa_reload"
  /\ LET snap == refinements[Req(r).sid]
     IN SetReq(r, [Req(r) EXCEPT !.snap = snap,
                     !.pc = IF AllAnswered(snap) THEN "sa_complete" ELSE "sa_progress"])
  /\ UNCHANGED << storeVars, calls, smVars >>

\* update status REFINEMENTS_COMPLETE
SAComplete(r) ==
  /\ Req(r).pc = "sa_complete"
  /\ session' = [session EXCEPT ![Req(r).sid].status = REFINEMENTS_COMPLETE]
  /\ SetReq(r, [Req(r) EXCEPT !.pc = "sa_prompt"])
  /\ LogStatus(Req(r).sid, REFINEMENTS_COMPLETE)
  /\ UNCHANGED << refinements, usage, now, calls, smVars >>

\* filter((r) => r.answer).map(Q/A).join, after the prompt and the marker
RECURSIVE QuestionsAndAnswers(_)
QuestionsAndAnswers(refs) ==
  IF refs = << >> THEN << >>
  ELSE (IF Truthy(Head(refs).answer)
        THEN << Head(refs).question, Head(refs).answer >> ELSE << >>)
       \o QuestionsAndAnswers(Tail(refs))

generateRefinedPrompt(initialPrompt, refs) ==
  << initialPrompt, RefinedMarker >> \o QuestionsAndAnswers(refs)

\* update refinedPrompt, computed from the snapshot
SAPrompt(r) ==
  /\ Req(r).pc = "sa_prompt"
  /\ session' = [session EXCEPT ![Req(r).sid].refinedPrompt =
                   generateRefinedPrompt(InitialPrompt, Req(r).snap)]
  /\ SetReq(r, [Req(r) EXCEPT !.pc = "rr_status"])
  /\ UNCHANGED << refinements, usage, now, statusLog, calls, smVars >>

\* update status REFINEMENTS_IN_PROGRESS
SAProgress(r) ==
  /\ Req(r).pc = "sa_progress"
  /\ session' = [session EXCEPT ![Req(r).sid].status = REFINEMENTS_IN_PROGRESS]
  /\ SetReq(r, Done(Req(r)))
  /\ LogStatus(Req(r).sid, REFINEMENTS_IN_PROGRESS)
  /\ UNCHANGED << refinements, usage, now, calls, smVars >>

\* ResearchOrchestrator.getSession(sessionId, userId): findFirst({id, userId}),
\* the session is returned or the error thrown
GetSession(r, sessionId, userId) ==
  /\ FreeSlot(r)
  /\ calls < MaxCalls
  /\ calls' = calls + 1
  /\ LET rec == [Idle EXCEPT !.op = "get", !.sid = sessionId, !.uid = userId]
     IN IF ~FindSession(sessionId, userId)
          THEN SetReq(r, Raise(rec, SessionNotFoundMsg))
        ELSE SetReq(r, Done(rec))
  /\ UNCHANGED << storeVars, smVars >>

\* variant: a returning call looks at the session once more and advances it
\* when every refinement is answered
ReturnRechecks(r) ==
  /\ Req(r).pc = "done"
  /\ SetReq(r, Idle)
  /\ session' = [s \in SessionIds |->
                   IF /\ session[s].status = REFINEMENTS_IN_PROGRESS
                      /\ AllAnswered(refinements[s])
                   THEN [session[s] EXCEPT !.status = REFINEMENTS_COMPLETE]
                   ELSE session[s]]
  /\ UNCHANGED << refinements, usage, now, statusLog, calls, smVars >>

NotCompletedMsg == << "Research not completed yet" >>

\* GET /api/sessions/[id]/pdf: findFirst({id, userId}), 404 without a row,
\* 400 unless both results are set, then the report is generated and served
\* (500 when the generation throws)
GetReport(r, sessionId, userId) ==
  /\ FreeSlot(r)
  /\ calls < MaxCalls
  /\ calls' = calls + 1
  /\ LET rec == [Idle EXCEPT !.op = "report", !.sid = sessionId, !.uid = userId]
     IN IF ~FindSession(sessionId, userId)
          THEN SetReq(r, Raise(rec, SessionNotFoundMsg))
        ELSE IF ~Truthy(session[sessionId].openaiResult)
                \/ ~Truthy(session[sessionId].geminiResult)
          THEN SetReq(r, Raise(rec, NotCompletedMsg))
        ELSE \E failAt \in Faults({"generatePDFBuffer"}) :
               IF failAt = Healthy
               THEN SetReq(r, Done([rec EXCEPT !.served = TRUE]))
               ELSE SetReq(r, Raise(rec, PdfErrorMsg))
  /\ UNCHANGED << storeVars, smVars >>

\* the call has returned or thrown: the slot is free again
Return(r) ==
  /\ Req(r).pc = "done"
  /\ SetReq(r, Idle)
  /\ UNCHANGED << storeVars, calls, smVars >>

\* one step of the call in slot r
Step(r) ==
  \/ \E u \in Users : StartSession(r, u)
  \/ SSGuard(r)
  \/ SSDenied(r)
  \/ SSCall(r)
  \/ SSCreateMany(r)
  \/ SSAwaiting(r)
  \/ SSCatch(r)
  \/ RRStatus(r)
  \/ RRGuardOpenAI(r)
  \/ RRGuardGemini(r)
  \/ RRDenied(r)
  \/ RROpenAIBranch(r)
  \/ RRGeminiBranch(r)
  \/ RRResults(r)
  \/ RRPdf(r)
  \/ RREmail(r)
  \/ RRCatch(r)
  \/ \E s \in SessionIds, u \in Users, q \in QuestionIndices :
       SubmitRefinementAnswer(r, s, u, q)
  \/ SAReload(r)
  \/ SAComplete(r)
  \/ SAPrompt(r)
  \/ SAProgress(r)
  \/ Return(r)

\* requests overlap: any call in flight takes its next step
Next == \E r \in ReqIds : Step(r)

Spec == Init /\ [][Next]_vars

\* sequential requests: a call starts only after the previous one returned;
\* the calls that write nothing are made here, between the others: getSession,
\* the fetch of the report, and submitRefinementAnswer for an id that no
\* session has
SeqNext ==
  \/ Step(1)
  \/ \E u \in Users, q \in QuestionIndices :
       SubmitRefinementAnswer(1, NoSuchId, u, q)
  \/ \E s \in SessionArgs, u \in Users : GetSession(1, s, u)
  \/ \E s \in SessionIds, u \in Users : GetReport(1, s, u)

SeqSpec == SeqInit /\ [][SeqNext]_vars

\* one call at a time, where every awaited operation of a call in flight
\* returns or raises in the end
FairSeqSpec == SeqSpec /\ WF_vars(SeqNext)

\* one call at a time, where the operations of the usage store and the
\* generation of the report can fail
FaultInit == Start /\ logging = FALSE /\ faulty = TRUE
FaultSpec == FaultInit /\ [][SeqNext]_vars

(***************************************************************************)
(* state-machine: canTransition applied to synthetic session snapshots     *)
(***************************************************************************)
RECURSIVE SeqsOfLen(_, _)
SeqsOfLen(S, n) ==
  IF n = 0 THEN {<< >>}
  ELSE {Append(q, x) : q \in SeqsOfLen(S, n - 1), x \in S}

OptionalTexts == {NULL, EMPTY, "some text"}

\* refinements with indices 0..n-1, each answer absent, empty or given
SnapshotRefinements ==
  UNION {{[i \in 1..n |-> [questionIndex |-> i - 1, question |-> QuestionText[1],
                           answer |-> a[i]]] :
             a \in SeqsOfLen(OptionalTexts, n)} : n \in 0..MaxSnapRefs}

Snapshots ==
  [refinements : SnapshotRefinements, refinedPrompt : OptionalTexts,
   openaiResult : OptionalTexts, geminiResult : OptionalTexts]

SMInit ==
  /\ session = [s \in SessionIds |-> NoSession]
  /\ refinements = [s \in SessionIds |-> << >>]
  /\ usage = [u \in Users |-> NoUsage(Today)]
  /\ now = Today
  /\ statusLog = [s \in SessionIds |-> << >>]
  /\ reqs = [r \in ReqIds |-> Idle]
  /\ calls = 0
  /\ logging = FALSE
  /\ faulty = FALSE
  /\ ug = NoGuardCall
  /\ smIn \in [from : ResearchSessionStatus, to : ResearchSessionStatus,
               session : Snapshots]
  /\ smOut = NoResult
  /\ nsOut = NoStates
  /\ nOut = NoState

\* one call of the state machine per behaviour
NotCalled == ~smOut.done /\ ~nsOut.done /\ ~nOut.done

\* ResearchSessionStateMachine.canTransition(from, to, session)
CallCanTransition ==
  /\ NotCalled
  /\ smOut' = [done |-> TRUE,
               value |-> canTransition(smIn.from, smIn.to, smIn.session)]
  /\ UNCHANGED << storeVars, reqs, calls, smIn, nsOut, nOut, logging, faulty, ug >>

\* ResearchSessionStateMachine.getNextStates(currentState, session)
CallGetNextStates ==
  /\ NotCalled
  /\ nsOut' = [done |-> TRUE, value |-> getNextStates(smIn.from, smIn.session)]
  /\ UNCHANGED << storeVars, reqs, calls, smIn, smOut, nOut, logging, faulty, ug >>

\* the snapshot with session.status = from
WithStatus(snapshot, st) == [status |-> st] @@ snapshot

\* ResearchSessionStateMachine.getNextState(session)
CallGetNextState ==
  /\ NotCalled
  /\ nOut' = [done |-> TRUE,
              value |-> getNextState(WithStatus(smIn.session, smIn.from))]
  /\ UNCHANGED << storeVars, reqs, calls, smIn, smOut, nsOut, logging, faulty, ug >>

SMNext == CallCanTransition \/ CallGetNextStates \/ CallGetNextState

SMSpec == SMInit /\ [][SMNext]_vars

(***************************************************************************)
(* api-usage-guard: calls of ApiUsageGuard on a store of usage rows, over  *)
(* days, months and years                                                  *)
(***************************************************************************)
\* the days of the clock, in order: a new day, a new month, a new year
GuardDates == << Today, Date(1, 1, 2), Date(1, 2, 1), Date(2, 2, 1) >>

\* rows left by earlier calls of the same day
GuardInitialRows ==
  {NoUsage(Today)} \cup
  {[exists |-> TRUE, openaiRequestsToday |-> o, openaiRequestsMonth |-> om,
    geminiRequestsToday |-> g, geminiRequestsMonth |-> gm, lastResetDate |-> Today] :
     o \in 0..OPENAI_DAILY_LIMIT, om \in {OPENAI_MONTHLY_LIMIT},
     g \in {0, GEMINI_DAILY_LIMIT}, gm \in {GEMINI_MONTHLY_LIMIT}}
  \cup
  {[exists |-> TRUE, openaiRequestsToday |-> o, openaiRequestsMonth |-> o,
    geminiRequestsToday |-> g, geminiRequestsMonth |-> g, lastResetDate |-> Today] :
     o \in 0..OPENAI_DAILY_LIMIT, g \in {0, GEMINI_DAILY_LIMIT}}

\* the day before the clock's first day
Yesterday == Date(0, 12, 31)

\* the second user has no row, or the row of two calls to each provider made
\* today, or made yesterday with no call since
OtherUserRows ==
  {NoUsage(Today)} \cup
  {[exists |-> TRUE, openaiRequestsToday |-> 2, openaiRequestsMonth |-> 2,
    geminiRequestsToday |-> 2, geminiRequestsMonth |-> 2, lastResetDate |-> day] :
     day \in {Today, Yesterday}}

UGInit ==
  /\ session = [s \in SessionIds |-> NoSession]
  /\ refinements = [s \in SessionIds |-> << >>]
  /\ usage \in [Users -> GuardInitialRows \cup OtherUserRows]
  /\ usage["u1"] \in GuardInitialRows
  /\ usage["u2"] \in OtherUserRows
  /\ now = Today
  /\ statusLog = [s \in SessionIds |-> << >>]
  /\ reqs = [r \in ReqIds |-> Idle]
  /\ calls = 0
  /\ logging = FALSE
  /\ faulty = FALSE
  /\ smIn = NoCall
  /\ smOut = NoResult
  /\ nsOut = NoStates
  /\ nOut = NoState
  /\ ug = NoGuardCall

\* what a guard call leaves alone
guardRest ==
  << session, refinements, now, statusLog, reqs, calls, smIn, smOut, nsOut, nOut,
     logging, faulty >>

\* the harness's note of a call: same = every call so far was this healthy
\* call; fresh = the first call found no row for its user; checks = what the
\* last check of each user and provider returned, and when, kept until the
\* next record*Request; prior = that note for this call's user and provider
\* as the call found it
Called(op, userId, failAt, result) ==
  [op |-> op, user |-> userId, failAt |-> failAt, at |-> now, before |-> usage,
   result |-> result, n |-> ug.n + 1,
   same |-> /\ failAt = Healthy
            /\ ug.n = 0 \/ (ug.same /\ ug.op = op /\ ug.user = userId),
   fresh |-> IF ug.n = 0 THEN ~usage[userId].exists ELSE ug.fresh,
   checks |-> IF ~IsCheck(op) THEN NoGuardCall.checks
              ELSE [ug.checks EXCEPT ![userId][ProviderOf(op)] =
                      IF failAt = Healthy
                      THEN [made |-> TRUE, at |-> now, result |-> result]
                      ELSE NoCheck],
   prior |-> IF IsCheck(op) THEN ug.checks[userId][ProviderOf(op)] ELSE NoCheck]

\* ApiUsageGuard.canMakeOpenAIRequest(userId)
UGCanMakeOpenAI(userId) ==
  /\ ug.n < MaxGuardCalls
  /\ \E failAt \in Faults(FailPoints) :
       LET g == CheckOpenAI(usage, userId, now, failAt)
       IN /\ usage' = g.usage
          /\ ug' = Called("canMakeOpenAIRequest", userId,
                          IF g.threw THEN failAt ELSE Healthy, g.result)
  /\ UNCHANGED guardRest

\* ApiUsageGuard.canMakeGeminiRequest(userId)
UGCanMakeGemini(userId) ==
  /\ ug.n < MaxGuardCalls
  /\ \E failAt \in Faults(FailPoints) :
       LET g == CheckGemini(usage, userId, now, failAt)
       IN /\ usage' = g.usage
          /\ ug' = Called("canMakeGeminiRequest", userId,
                          IF g.threw THEN failAt ELSE Healthy, g.result)
  /\ UNCHANGED guardRest

\* ApiUsageGuard.recordOpenAIRequest(userId)
UGRecordOpenAI(userId) ==
  /\ ug.n < MaxGuardCalls
  /\ \E failAt \in Faults({"upsert"}) :
       /\ usage' = RecordOpenAI(usage, userId, now, failAt)
       /\ ug' = Called("recordOpenAIRequest", userId, failAt, NoDecision)
  /\ UNCHANGED guardRest

\* ApiUsageGuard.recordGeminiRequest(userId)
UGRecordGemini(userId) ==
  /\ ug.n < MaxGuardCalls
  /\ \E failAt \in Faults({"upsert"}) :
       /\ usage' = RecordGemini(usage, userId, now, failAt)
       /\ ug' = Called("recordGeminiRequest", userId, failAt, NoDecision)
  /\ UNCHANGED guardRest

\* midnight: the clock moves on to a later day
UGTick ==
  /\ \E i, j \in DOMAIN GuardDates :
       i < j /\ now = GuardDates[i] /\ now' = GuardDates[j]
  /\ UNCHANGED << session, refinements, usage, statusLog, reqs, calls, smVars >>

UGNext ==
  \/ \E userId \in Users :
       \/ UGCanMakeOpenAI(userId)
       \/ UGCanMakeGemini(userId)
       \/ UGRecordOpenAI(userId)
       \/ UGRecordGemini(userId)
  \/ UGTick

UGSpec == UGInit /\ [][UGNext]_vars

(***************************************************************************)
(* Properties                                                              *)
(***************************************************************************)
\* the forward progression, in order
Progression ==
  << CREATED, AWAITING_REFINEMENTS, REFINEMENTS_IN_PROGRESS, REFINEMENTS_COMPLETE,
     RUNNING_RESEARCH, COMPLETED >>
\* position of a forward state in the progression (0 for FAILED)
Rank(st) ==
  IF \E i \in DOMAIN Progression : Progression[i] = st
  THEN CHOOSE i \in DOMAIN Progression : Progression[i] = st ELSE 0
ForwardEdge(from, to) == Rank(from) > 0 /\ Rank(to) = Rank(from) + 1

\* C1: within one session the persisted status only moves forward along the
\* progression, apart from jumps to FAILED: no status write replaces a forward
\* state by a strictly earlier forward state, whatever calls are made.
C1_StatusOnlyMovesForward ==
  [][\A s \in SessionIds :
       (Rank(session[s].status) > 0 /\ Rank(session'[s].status) > 0)
         => Rank(session'[s].status) >= Rank(session[s].status)]_vars

\* C2: a COMPLETED session has both results, and the two results are set
\* together: never exactly one of them.
C2_ResultsSetTogether ==
  \A s \in SessionIds :
    /\ session[s].status = COMPLETED
         => (session[s].openaiResult # NULL /\ session[s].geminiResult # NULL)
    /\ (session[s].openaiResult = NULL) <=> (session[s].geminiResult = NULL)

C2_Witness ==
  \E s \in SessionIds :
    /\ session[s].status = COMPLETED
    /\ session[s].openaiResult = ResearchFailed
    /\ session[s].geminiResult = GeminiText

\* C3: refinedPrompt is set if and only if the status is REFINEMENTS_COMPLETE,
\* RUNNING_RESEARCH or COMPLETED, or FAILED after having reached one of those.
ReachedRefinementsComplete(s) ==
  \E i \in DOMAIN statusLog[s] :
    statusLog[s][i] \in {REFINEMENTS_COMPLETE, RUNNING_RESEARCH, COMPLETED}

C3_RefinedPromptIffReached ==
  \A s \in SessionIds :
    session[s].exists =>
      ((session[s].refinedPrompt # NoPrompt)
         <=> \/ session[s].status \in {REFINEMENTS_COMPLETE, RUNNING_RESEARCH, COMPLETED}
             \/ session[s].status = FAILED /\ ReachedRefinementsComplete(s))

\* C4: errorMessage is set if and only if the status is FAILED.
C4_ErrorMessageIffFailed ==
  \A s \in SessionIds :
    session[s].exists =>
      ((session[s].errorMessage # NoMsg) <=> session[s].status = FAILED)

\* C5: when the usage guard denies the first-provider check of startSession,
\* the call ends with the session FAILED, errorMessage equal to the guard's
\* reason, the provider never invoked, no usage recorded, no Refinement rows,
\* and the error raised to the caller.
C5_StartDeniedFails ==
  \A r \in ReqIds :
    (reqs[r].op = "start" /\ reqs[r].pc = "done" /\ ~reqs[r].canMakeRequest.allowed)
      => /\ session[reqs[r].sid].status = FAILED
         /\ session[reqs[r].sid].errorMessage = reqs[r].canMakeRequest.reason
         /\ reqs[r].invoked = 0
         /\ reqs[r].recorded = 0
         /\ refinements[reqs[r].sid] = << >>
         /\ reqs[r].raised
         /\ reqs[r].err = reqs[r].canMakeRequest.reason

C5_Witness ==
  \E r \in ReqIds :
    /\ reqs[r].op = "start" /\ reqs[r].pc = "done"
    /\ ~reqs[r].canMakeRequest.allowed
    /\ reqs[r].canMakeRequest.reason = DailyOpenAIReason
    /\ session[reqs[r].sid].status = FAILED

\* C6: when the first provider answers startSession with N refinement
\* questions, the call ends (before any other call is made) with status
\* AWAITING_REFINEMENTS and exactly N Refinement rows carrying the
\* provider-given indices, all unanswered; and in no reachable state,
\* overlapping calls included, is the status AWAITING_REFINEMENTS while only
\* part of the N rows exist.
RowsAsAsked(rows, qs) ==
  /\ Len(rows) = Len(qs)
  /\ \A i \in DOMAIN qs : rows[i].questionIndex = qs[i] /\ rows[i].answer = NULL

C6_AwaitingWithAllQuestions ==
  \A r \in ReqIds :
    (reqs[r].op = "start" /\ reqs[r].resp.kind = "refine")
      => /\ (reqs[r].pc = "done" /\ ~reqs[r].raised /\ calls = 1)
              => /\ session[reqs[r].sid].status = AWAITING_REFINEMENTS
                 /\ RowsAsAsked(refinements[reqs[r].sid], reqs[r].resp.qs)
         /\ session[reqs[r].sid].status = AWAITING_REFINEMENTS
              => Len(refinements[reqs[r].sid]) = Len(reqs[r].resp.qs)

C6_Witness ==
  \E r \in ReqIds :
    /\ reqs[r].op = "start" /\ reqs[r].pc = "done" /\ ~reqs[r].raised
    /\ calls = 1
    /\ reqs[r].resp = [kind |-> "refine", qs |-> << 1, 0 >>]
    /\ session[reqs[r].sid].status = AWAITING_REFINEMENTS
    /\ Len(refinements[reqs[r].sid]) = 2

\* C7: N questions answered one at a time by sequential requests: the logged
\* status sequence is REFINEMENTS_IN_PROGRESS after each of the first N-1
\* answers, then on the N-th answer REFINEMENTS_COMPLETE, RUNNING_RESEARCH,
\* COMPLETED; with both providers succeeding and the report generated the
\* final session has both results and a report timestamp.
Answered(refs) == {i \in DOMAIN refs : refs[i].answer # NULL}
Repeat(st, n) == [i \in 1..n |-> st]

\* every submitRefinementAnswer call so far answered one more question
\* (the model holds one session: calls counts its startSession and its answers)
OneAtATime(s) ==
  /\ session[s].exists
  /\ Len(refinements[s]) > 0
  /\ Cardinality(Answered(refinements[s])) = calls - 1

C7_SequentialAnswersSequence ==
  \A s \in SessionIds : \A r \in ReqIds :
    (/\ OneAtATime(s)
     /\ reqs[r].op = "submit" /\ reqs[r].sid = s /\ reqs[r].pc = "done")
      => LET n == Len(refinements[s])
             k == Cardinality(Answered(refinements[s]))
         IN /\ k < n =>
                 /\ statusLog[s] = << CREATED, AWAITING_REFINEMENTS >>
                                     \o Repeat(REFINEMENTS_IN_PROGRESS, k)
                 /\ session[s].status = REFINEMENTS_IN_PROGRESS
            /\ (/\ k = n
                /\ reqs[r].oOut.status = "fulfilled"
                /\ reqs[r].gOut.status = "fulfilled"
                /\ ~reqs[r].raised) =>
                 /\ statusLog[s] = << CREATED, AWAITING_REFINEMENTS >>
                                     \o Repeat(REFINEMENTS_IN_PROGRESS, n - 1)
                                     \o << REFINEMENTS_COMPLETE, RUNNING_RESEARCH,
                                           COMPLETED >>
                 /\ session[s].status = COMPLETED
                 /\ session[s].openaiResult # NULL
                 /\ session[s].geminiResult # NULL
                 /\ session[s].pdfGeneratedAt

C7_Witness ==
  \E s \in SessionIds : \E r \in ReqIds :
    /\ OneAtATime(s)
    /\ reqs[r].op = "submit" /\ reqs[r].sid = s /\ reqs[r].pc = "done"
    /\ Len(refinements[s]) = MaxQ
    /\ Cardinality(Answered(refinements[s])) = MaxQ
    /\ reqs[r].oOut.status = "fulfilled" /\ reqs[r].gOut.status = "fulfilled"
    /\ ~reqs[r].raised
    /\ session[s].status = COMPLETED
    /\ session[s].pdfGeneratedAt

\* C8: the two provider calls of the fan-out are isolated: once both have
\* settled the session becomes COMPLETED, a provider that raised has the
\* result "Research failed" and a provider that returned has its own output;
\* a call in the fan-out never goes to the failure path.
C8_FanOutIsolated ==
  [][\A r \in ReqIds :
       reqs[r].pc = "rr_fanout" =>
         /\ reqs'[r].pc \in {"rr_fanout", "rr_pdf"}
         /\ reqs'[r].pc = "rr_pdf" =>
              /\ session'[reqs[r].sid].status = COMPLETED
              /\ session'[reqs[r].sid].openaiResult =
                   (IF reqs[r].oOut.status = "rejected" THEN "Research failed"
                    ELSE reqs[r].oOut.value)
              /\ session'[reqs[r].sid].geminiResult =
                   (IF reqs[r].gOut.status = "rejected" THEN "Research failed"
                    ELSE reqs[r].gOut.value)]_vars

C8_Witness ==
  \E r \in ReqIds :
    /\ reqs[r].pc = "rr_pdf"
    /\ reqs[r].oOut.status = "rejected" /\ reqs[r].gOut.status = "fulfilled"
    /\ session[reqs[r].sid].status = COMPLETED
    /\ session[reqs[r].sid].openaiResult = ResearchFailed
    /\ session[reqs[r].sid].geminiResult = GeminiText


\* C9: canTransition(S, S, session) and canTransition(S, FAILED, session) are
\* true for every state S (COMPLETED and FAILED included) and every snapshot.
C9_SameStateAndFailedAlwaysLegal ==
  (smOut.done /\ (smIn.from = smIn.to \/ smIn.to = FAILED)) => smOut.value

C9_Witness ==
  /\ smOut.done /\ smOut.value
  /\ smIn.from = COMPLETED /\ smIn.to = FAILED
  /\ smIn.session.refinements # << >>

\* C10: for from # to and to # FAILED, canTransition is false on every
\* snapshot unless (from, to) is one of the five consecutive forward edges.
C10_OnlyForwardEdgesLegal ==
  (/\ smOut.done
   /\ smIn.from # smIn.to
   /\ smIn.to # FAILED
   /\ ~ForwardEdge(smIn.from, smIn.to)) => ~smOut.value

C10_Witness ==
  /\ smOut.done /\ ~smOut.value
  /\ smIn.from = CREATED /\ smIn.to = COMPLETED
  /\ Truthy(smIn.session.openaiResult) /\ Truthy(smIn.session.geminiResult)

\* the guard of the forward edge leaving a state, stated on the snapshot:
\* a text is set (present) when it is neither null nor the empty string
IsSet(text) == text # NULL /\ text # EMPTY
EdgeGuard(from, snapshot) ==
  CASE from = CREATED -> TRUE
    [] from = AWAITING_REFINEMENTS -> Len(snapshot.refinements) >= 1
    [] from = REFINEMENTS_IN_PROGRESS ->
         /\ Len(snapshot.refinements) >= 1
         /\ \A i \in DOMAIN snapshot.refinements :
              IsSet(snapshot.refinements[i].answer)
    [] from = REFINEMENTS_COMPLETE -> IsSet(snapshot.refinedPrompt)
    [] from = RUNNING_RESEARCH ->
         IsSet(snapshot.openaiResult) /\ IsSet(snapshot.geminiResult)
    [] OTHER -> FALSE
Elems(seq) == {seq[i] : i \in DOMAIN seq}

\* C11: on each of the five forward edges canTransition equals the edge's
\* guard on the snapshot: always; at least one refinement; at least one
\* refinement and every answer non-empty; refinedPrompt set; both results
\* present.
C11_ForwardEdgeEqualsGuard ==
  (smOut.done /\ ForwardEdge(smIn.from, smIn.to))
    => (smOut.value <=> EdgeGuard(smIn.from, smIn.session))

C11_Witness ==
  /\ smOut.done /\ ~smOut.value
  /\ smIn.from = REFINEMENTS_IN_PROGRESS /\ smIn.to = REFINEMENTS_COMPLETE
  /\ Len(smIn.session.refinements) = 2
  /\ smIn.session.refinements[1].answer = "some text"
  /\ smIn.session.refinements[2].answer = EMPTY

\* C12: getNextStates(current, session) is exactly current, FAILED when
\* current is not FAILED, and the forward-edge target of current when its
\* guard is true; in particular REFINEMENTS_COMPLETE is among the next states
\* of REFINEMENTS_IN_PROGRESS exactly when there is a refinement and all are
\* answered.
C12_NextStatesExact ==
  nsOut.done =>
    /\ Elems(nsOut.value) =
         {smIn.from}
           \cup (IF smIn.from # FAILED THEN {FAILED} ELSE {})
           \cup {to \in ResearchSessionStatus :
                   ForwardEdge(smIn.from, to) /\ EdgeGuard(smIn.from, smIn.session)}
    /\ Cardinality(Elems(nsOut.value)) = Len(nsOut.value)

C12_Witness ==
  /\ nsOut.done
  /\ smIn.from = REFINEMENTS_IN_PROGRESS
  /\ Len(smIn.session.refinements) = 3
  /\ smIn.session.refinements[1].answer = "some text"
  /\ smIn.session.refinements[2].answer = "some text"
  /\ smIn.session.refinements[3].answer = NULL
  /\ nsOut.value = << REFINEMENTS_IN_PROGRESS, FAILED >>

\* C13: getNextState(session) is none or a state other than the current
\* status and FAILED; the next states without the current status and FAILED
\* are at most one, which is then the result; and the result is none when the
\* status is COMPLETED or FAILED or the guard of the forward edge is false.
C13_NextStateUnambiguous ==
  nOut.done =>
    LET candidates ==
          Elems(getNextStates(smIn.from, smIn.session)) \ {smIn.from, FAILED}
    IN /\ \/ nOut.value = NULL
          \/ nOut.value \in ResearchSessionStatus \ {smIn.from, FAILED}
       /\ Cardinality(candidates) <= 1
       /\ candidates # {} => nOut.value \in candidates
       /\ (\/ smIn.from \in {COMPLETED, FAILED}
           \/ ~EdgeGuard(smIn.from, smIn.session)) => nOut.value = NULL

C13_Witness ==
  /\ nOut.done
  /\ smIn.from = REFINEMENTS_COMPLETE
  /\ smIn.session.refinedPrompt = "some text"
  /\ nOut.value = RUNNING_RESEARCH

\* C18: a step in which an operation of the usage store fails raises nothing
\* and writes no session: a failed check returns allowed = true (the call is
\* denied only for a reason found with the store working), a failed recording
\* lets the provider's answer through; so the failure neither turns the
\* session FAILED nor reaches the caller.
C18_UsageStoreFailureSwallowed ==
  [][\A r \in ReqIds :
       reqs'[r].faults > reqs[r].faults =>
         /\ session' = session
         /\ reqs'[r].raised = reqs[r].raised /\ reqs'[r].err = reqs[r].err
         /\ reqs'[r].pc \notin {"ss_denied", "ss_catch", "rr_catch"}
         /\ reqs[r].pc = "ss_guard" =>
              reqs'[r].canMakeRequest.allowed /\ reqs'[r].pc = "ss_call"
         /\ reqs[r].pc = "rr_guardO" => reqs'[r].canMakeOpenAI.allowed
         /\ reqs[r].pc = "rr_guardG" =>
              /\ reqs'[r].canMakeGemini.allowed
              /\ reqs'[r].pc = "rr_denied" => ~reqs[r].canMakeOpenAI.allowed
         /\ reqs[r].pc = "ss_call" =>
              /\ reqs'[r].invoked = reqs[r].invoked + 1
              /\ reqs'[r].pc \in {"ss_create", "rr_status", "done"}
         /\ reqs[r].pc = "rr_fanout" =>
              /\ reqs'[r].pc = "rr_fanout"
              /\ \/ reqs[r].oOut = Pending /\ reqs'[r].oOut.status = "fulfilled"
                 \/ reqs[r].gOut = Pending /\ reqs'[r].gOut.status = "fulfilled"]_vars

C18_Witness ==
  \E r \in ReqIds :
    /\ reqs[r].op = "start" /\ reqs[r].pc = "ss_call"
    /\ reqs[r].faults = 1
    /\ reqs[r].canMakeRequest.allowed
    /\ usage[reqs[r].uid].openaiRequestsToday >= OPENAI_DAILY_LIMIT

\* the harness's last call was a check (a recording) that no store failure cut
\* short
CheckedHealthy == ug.op \in {"canMakeOpenAIRequest", "canMakeGeminiRequest"} /\ ug.failAt = Healthy
OfOpenAI == ug.op \in {"canMakeOpenAIRequest", "recordOpenAIRequest"}
\* the counters of a row under the provider of the last call
TodayCount(row) == IF OfOpenAI THEN row.openaiRequestsToday ELSE row.geminiRequestsToday
MonthCount(row) == IF OfOpenAI THEN row.openaiRequestsMonth ELSE row.geminiRequestsMonth
DailyLimit == IF OfOpenAI THEN OPENAI_DAILY_LIMIT ELSE GEMINI_DAILY_LIMIT
MonthlyLimit == IF OfOpenAI THEN OPENAI_MONTHLY_LIMIT ELSE GEMINI_MONTHLY_LIMIT
GlobalDailyLimit == IF OfOpenAI THEN OPENAI_GLOBAL_DAILY_LIMIT ELSE GEMINI_GLOBAL_DAILY_LIMIT
DailyReason == IF OfOpenAI THEN DailyOpenAIReason ELSE DailyGeminiReason
MonthlyReason == IF OfOpenAI THEN MonthlyOpenAIReason ELSE MonthlyGeminiReason
\* no row is due for a roll-over at the time of the last call
NoRolloverPending ==
  \A u \in Users : ug.before[u].exists => ug.before[u].lastResetDate = ug.at
StoredTodaySum(usg) == TodayCount(usg["u1"]) + TodayCount(usg["u2"])

\* C14: with a healthy store and no roll-over pending, canMakeRequest denies
\* naming the daily limit if today-count >= daily limit; else denies naming
\* the monthly limit if month-count >= monthly limit; else denies with the
\* generic reason if the sum of today-counts of all users >= global-daily
\* limit; else allows.  Denied at today-count = limit, allowed at limit - 1.
C14_DecisionLadder ==
  (CheckedHealthy /\ NoRolloverPending) =>
    LET row == ug.before[ug.user]
    IN ug.result =
         IF TodayCount(row) >= DailyLimit
           THEN [allowed |-> FALSE, reason |-> DailyReason]
         ELSE IF MonthCount(row) >= MonthlyLimit
           THEN [allowed |-> FALSE, reason |-> MonthlyReason]
         ELSE IF StoredTodaySum(ug.before) >= GlobalDailyLimit
           THEN [allowed |-> FALSE, reason |-> UnavailableReason]
         ELSE [allowed |-> TRUE, reason |-> NoMsg]

C14_Witness ==
  /\ CheckedHealthy /\ NoRolloverPending
  /\ ug.op = "canMakeOpenAIRequest"
  /\ ug.before[ug.user].openaiRequestsToday = OPENAI_DAILY_LIMIT - 1
  /\ ug.before[ug.user].openaiRequestsMonth < OPENAI_MONTHLY_LIMIT
  /\ StoredTodaySum(ug.before) = OPENAI_GLOBAL_DAILY_LIMIT - 1
  /\ ug.result.allowed

\* C15: recordRequest adds exactly 1 to the provider's today-count and
\* month-count, creating the row if absent, and leaves the other provider's
\* counters and lastResetDate as they were; k calls for a fresh user give
\* today-count k and month-count k.
C15_RecordIncrements ==
  (ug.op \in {"recordOpenAIRequest", "recordGeminiRequest"} /\ ug.failAt = Healthy) =>
    LET old == ug.before[ug.user]
        new == usage[ug.user]
    IN /\ new.exists
       /\ TodayCount(new) = TodayCount(old) + 1
       /\ MonthCount(new) = MonthCount(old) + 1
       /\ OfOpenAI => /\ new.geminiRequestsToday = old.geminiRequestsToday
                       /\ new.geminiRequestsMonth = old.geminiRequestsMonth
       /\ ~OfOpenAI => /\ new.openaiRequestsToday = old.openaiRequestsToday
                        /\ new.openaiRequestsMonth = old.openaiRequestsMonth
       /\ old.exists => new.lastResetDate = old.lastResetDate
       /\ \A u \in Users \ {ug.user} : usage[u] = ug.before[u]
       /\ (ug.same /\ ug.fresh) => TodayCount(new) = ug.n /\ MonthCount(new) = ug.n

C15_Witness ==
  /\ ug.op = "recordOpenAIRequest" /\ ug.failAt = Healthy
  /\ ug.same /\ ug.fresh /\ ug.n = 3
  /\ usage[ug.user].openaiRequestsToday = 3
  /\ usage[ug.user].openaiRequestsMonth = 3

\* C16: a canMakeRequest made on a day strictly after the row's lastResetDate
\* sets both providers' today-counts to zero and lastResetDate to today
\* before the limits are evaluated, and leaves both month-counts unchanged
\* when the month has not changed.
C16_DayRollover ==
  (/\ CheckedHealthy
   /\ ug.before[ug.user].exists
   /\ DateGT(ug.at, ug.before[ug.user].lastResetDate)) =>
    LET old == ug.before[ug.user]
        new == usage[ug.user]
    IN /\ new.openaiRequestsToday = 0 /\ new.geminiRequestsToday = 0
       /\ new.lastResetDate = ug.at
       /\ ug.result.reason # DailyReason
       /\ (ug.at.m = old.lastResetDate.m /\ ug.at.y = old.lastResetDate.y) =>
            /\ new.openaiRequestsMonth = old.openaiRequestsMonth
            /\ new.geminiRequestsMonth = old.geminiRequestsMonth

C16_Witness ==
  /\ CheckedHealthy
  /\ ug.before[ug.user].exists
  /\ ug.before[ug.user].lastResetDate = Today /\ ug.at = Date(1, 1, 2)
  /\ ug.before[ug.user].openaiRequestsToday = OPENAI_DAILY_LIMIT
  /\ ug.before[ug.user].openaiRequestsMonth = OPENAI_DAILY_LIMIT
  /\ usage[ug.user].openaiRequestsToday = 0
  /\ usage[ug.user].openaiRequestsMonth = OPENAI_DAILY_LIMIT
  /\ ug.result.allowed

\* C17: a canMakeRequest made in a month or year other than that of the
\* stored lastResetDate leaves both providers' month-counts at zero, also
\* when the call first performs the day roll-over that rewrites
\* lastResetDate; the monthly limit is then not what denies the call.
C17_MonthRollover ==
  (/\ CheckedHealthy
   /\ ug.before[ug.user].exists
   /\ \/ ug.at.m # ug.before[ug.user].lastResetDate.m
      \/ ug.at.y # ug.before[ug.user].lastResetDate.y) =>
    /\ usage[ug.user].openaiRequestsMonth = 0
    /\ usage[ug.user].geminiRequestsMonth = 0
    /\ usage[ug.user].lastResetDate = ug.at
    /\ ug.result.reason # MonthlyReason

C17_Witness ==
  /\ CheckedHealthy
  /\ ug.before[ug.user].exists
  /\ ug.before[ug.user].lastResetDate = Date(1, 1, 2) /\ ug.at = Date(1, 2, 1)
  /\ ug.before[ug.user].openaiRequestsMonth >= OPENAI_MONTHLY_LIMIT
  /\ usage[ug.user].openaiRequestsMonth = 0
  /\ usage[ug.user].openaiRequestsToday = 0

\* C19: with a healthy store no user's today-count exceeds the per-user
\* daily limit and no month-count exceeds the monthly limit, for either
\* provider, also when calls of the same user overlap.
C19_PerUserCeilings ==
  \A u \in Users :
    /\ usage[u].openaiRequestsToday <= OPENAI_DAILY_LIMIT
    /\ usage[u].geminiRequestsToday <= GEMINI_DAILY_LIMIT
    /\ usage[u].openaiRequestsMonth <= OPENAI_MONTHLY_LIMIT
    /\ usage[u].geminiRequestsMonth <= GEMINI_MONTHLY_LIMIT

\* C20: the global-daily ceiling counts only calls recorded on the current
\* day: canMakeRequest gives the generic reason only if the today-counts of
\* the rows whose lastResetDate is today sum to at least the global-daily
\* limit; rows last reset on an earlier day count for nothing.
TodaysCount(row) ==
  IF row.exists /\ row.lastResetDate = ug.at THEN TodayCount(row) ELSE 0
C20_GlobalCountsTodayOnly ==
  (CheckedHealthy /\ ug.result = [allowed |-> FALSE, reason |-> UnavailableReason]) =>
    TodaysCount(usage["u1"]) + TodaysCount(usage["u2"]) >= GlobalDailyLimit

\* a step that decreases no counter of row u
CountersKept(u) ==
  /\ usage'[u].openaiRequestsToday >= usage[u].openaiRequestsToday
  /\ usage'[u].openaiRequestsMonth >= usage[u].openaiRequestsMonth
  /\ usage'[u].geminiRequestsToday >= usage[u].geminiRequestsToday
  /\ usage'[u].geminiRequestsMonth >= usage[u].geminiRequestsMonth
\* the last call was a check that followed, on the same calendar day and with
\* no record*Request in between, a check of the same user and provider
SecondCheck == CheckedHealthy /\ ug.prior.made /\ ug.prior.at = ug.at
SecondCheckIsNoOp == SecondCheck => usage[ug.user] = ug.before[ug.user]
SecondCheckSameDecision == SecondCheck => ug.result = ug.prior.result

\* C21: no operation of the usage guard decreases a counter of a row whose
\* lastResetDate is the current day; and a second canMakeRequest of the same
\* user and provider on the same calendar day, with no recordRequest in
\* between, leaves the usage row unchanged and returns the decision of the
\* first.
C21_MonotoneAndIdempotent ==
  [][/\ \A u \in Users :
          (usage[u].exists /\ usage[u].lastResetDate = now /\ now' = now)
            => CountersKept(u)
     /\ SecondCheckIsNoOp'
     /\ SecondCheckSameDecision']_vars

\* C22: a failed delivery changes nothing of the session (status, errorMessage
\* and report timestamp stay as they were) and the call returns without an
\* error; with no other call made, the session is then COMPLETED with no
\* errorMessage and its report timestamp set.  emailSentAt is set only by a
\* successful delivery, and no delivery is attempted for a user without an
\* address.
C22_DeliveryNonFatal ==
  [][/\ \A r \in ReqIds :
          (reqs[r].pc = "rr_email" /\ reqs'[r] # reqs[r]) =>
            /\ reqs'[r].pc = "done"
            /\ ~reqs'[r].raised /\ reqs'[r].err = NoMsg
            /\ reqs'[r].delivery \in {"sent", "failed"}
            /\ reqs'[r].delivery = "failed" =>
                 /\ session' = session
                 /\ session[reqs[r].sid].pdfGeneratedAt
                 /\ calls = 1 => /\ session'[reqs[r].sid].status = COMPLETED
                                 /\ session'[reqs[r].sid].errorMessage = NoMsg
     /\ \A s \in SessionIds :
          session'[s].emailSentAt # session[s].emailSentAt =>
            /\ session'[s].emailSentAt
            /\ \E r \in ReqIds : /\ reqs[r].pc = "rr_email" /\ reqs[r].sid = s
                                  /\ reqs'[r].delivery = "sent"
     /\ \A r \in ReqIds :
          reqs'[r].delivery # "none" =>
            session'[reqs'[r].sid].userId \in UsersWithEmail]_vars

C22_Witness ==
  \E r \in ReqIds :
    /\ reqs[r].pc = "done" /\ reqs[r].delivery = "failed" /\ ~reqs[r].raised
    /\ session[reqs[r].sid].status = COMPLETED
    /\ session[reqs[r].sid].pdfGeneratedAt
    /\ ~session[reqs[r].sid].emailSentAt
    /\ session[reqs[r].sid].errorMessage = NoMsg

\* C22 (second witness): a session of a user without an address is completed
\* and its report generated with no delivery attempted
C22_NoAddress ==
  \E r \in ReqIds :
    /\ reqs[r].pc = "done" /\ reqs[r].delivery = "none"
    /\ session[reqs[r].sid].userId \notin UsersWithEmail
    /\ session[reqs[r].sid].pdfGeneratedAt
    /\ ~session[reqs[r].sid].emailSentAt

\* runResearch's usage check of a call disallowed a provider
RRDisallowed(rec) == ~rec.canMakeOpenAI.allowed \/ ~rec.canMakeGemini.allowed
\* the reasons of the disallowed providers, the first provider's first
DisallowedReasons(rec) ==
  IF ~rec.canMakeOpenAI.allowed /\ ~rec.canMakeGemini.allowed
    THEN rec.canMakeOpenAI.reason \o rec.canMakeGemini.reason
  ELSE IF ~rec.canMakeOpenAI.allowed THEN rec.canMakeOpenAI.reason
  ELSE rec.canMakeGemini.reason
\* after the disallowing check neither branch of the fan-out has run, and
\* the only provider call and recording is the one startSession made before
NothingInvoked ==
  \A r \in ReqIds :
    (RRDisallowed(reqs[r]) /\ reqs[r].pc \in {"rr_denied", "rr_catch", "ss_catch", "done"})
      => /\ reqs[r].oOut = Pending /\ reqs[r].gOut = Pending
         /\ reqs[r].invoked = (IF reqs[r].op = "start" THEN 1 ELSE 0)
         /\ reqs[r].recorded = (IF reqs[r].op = "start" THEN 1 ELSE 0)

\* C23: when runResearch's usage check disallows a provider, neither
\* provider is invoked and no usage is recorded, the session is written
\* FAILED with errorMessage the disallowed providers' reasons joined (the
\* allowed one skipped, the first provider's first), and the error with that
\* message is raised to the caller.
C23_ResearchDeniedFails ==
  [][/\ NothingInvoked'
     /\ \A r \in ReqIds :
          LET sid == reqs[r].sid
              msg == DisallowedReasons(reqs[r])
          IN /\ (reqs[r].pc = "rr_guardG" /\ RRDisallowed(reqs'[r]))
                  => reqs'[r].pc \in {"rr_guardG", "rr_denied"}
             /\ (reqs[r].pc = "rr_denied" /\ reqs'[r] # reqs[r]) =>
                  /\ session'[sid].status = FAILED
                  /\ session'[sid].errorMessage = msg
                  /\ reqs'[r].pc = "rr_catch" /\ reqs'[r].err = msg
                  /\ usage' = usage
             /\ (/\ reqs[r].pc \in {"rr_catch", "ss_catch"} /\ RRDisallowed(reqs[r])
                 /\ reqs'[r] # reqs[r]) =>
                  /\ session'[sid].status = FAILED
                  /\ session'[sid].errorMessage = msg
                  /\ reqs'[r].err = msg
                  /\ usage' = usage
                  /\ IF reqs[r].op = "start" /\ reqs[r].pc = "rr_catch"
                       THEN reqs'[r].pc = "ss_catch"
                       ELSE reqs'[r].pc = "done" /\ reqs'[r].raised]_vars

C23_Witness ==
  \E r \in ReqIds :
    /\ reqs[r].pc = "done" /\ reqs[r].raised
    /\ ~reqs[r].canMakeOpenAI.allowed /\ ~reqs[r].canMakeGemini.allowed
    /\ reqs[r].err = DailyOpenAIReason \o DailyGeminiReason
    /\ session[reqs[r].sid].status = FAILED
    /\ session[reqs[r].sid].errorMessage = DailyOpenAIReason \o DailyGeminiReason

\* a startSession call that has ended by raising an error
StartRaised(rec) == rec.op = "start" /\ rec.pc = "done" /\ rec.raised
StartFailedPersisted ==
  \A r \in ReqIds :
    StartRaised(reqs[r]) =>
      /\ reqs[r].err # NoMsg
      /\ session[reqs[r].sid].status = FAILED
      /\ session[reqs[r].sid].errorMessage = reqs[r].err
      /\ reqs[r].err = OpenAIErrorMsg =>
           /\ reqs[r].invoked = 1 /\ reqs[r].recorded = 0
           /\ refinements[reqs[r].sid] = << >>

\* C24: every step of startSession that raises after the session was created
\* (the usage denial, the first provider call, runResearch) takes the call to
\* the catch with the error's message; the catch persists FAILED with that
\* message and raises the same error to the caller; when the provider call
\* raised, no usage was recorded and the session has no Refinement rows.
C24_StartFailurePersisted ==
  [][/\ StartFailedPersisted'
     /\ \A r \in ReqIds :
          reqs[r].op = "start" =>
            /\ (reqs[r].pc # "ss_catch" /\ reqs'[r].pc = "ss_catch")
                 => reqs'[r].err # NoMsg
            /\ (reqs[r].pc = "ss_call" /\ reqs'[r].pc = "ss_catch")
                 => /\ reqs'[r].err = OpenAIErrorMsg
                    /\ usage' = usage /\ refinements' = refinements
            /\ (reqs[r].pc = "ss_catch" /\ reqs'[r] # reqs[r])
                 => /\ StartRaised(reqs'[r])
                    /\ reqs'[r].err = reqs[r].err
            /\ (reqs'[r].pc = "done" /\ reqs'[r] # reqs[r] /\ reqs[r].pc # "ss_catch")
                 => ~reqs'[r].raised]_vars

C24_Witness ==
  \E r \in ReqIds :
    /\ StartRaised(reqs[r])
    /\ reqs[r].err = OpenAIErrorMsg
    /\ reqs[r].invoked = 1 /\ reqs[r].recorded = 0
    /\ session[reqs[r].sid].status = FAILED
    /\ session[reqs[r].sid].errorMessage = OpenAIErrorMsg
    /\ refinements[reqs[r].sid] = << >>

\* C24 (second witness): the report generation failed inside the runResearch
\* of a startSession that got a direct result
C24_ReportFailed ==
  \E r \in ReqIds :
    /\ StartRaised(reqs[r])
    /\ reqs[r].err = PdfErrorMsg
    /\ session[reqs[r].sid].status = FAILED
    /\ session[reqs[r].sid].errorMessage = PdfErrorMsg

\* the arguments of a call name no session owned by the caller
NotOwned(sid, uid) ==
  \/ sid \notin SessionIds
  \/ ~session[sid].exists
  \/ session[sid].userId # uid

\* C25: submitRefinementAnswer and getSession called for a session that the
\* caller does not own end at once with the error thrown for a session id
\* that does not exist, and leave the sessions, their refinements and the
\* usage rows as they were; getSession never changes them.
C25_OwnershipScoped ==
  [][\A r \in ReqIds :
       (reqs[r].pc = "idle" /\ reqs'[r].op \in {"submit", "get"}) =>
         /\ NotOwned(reqs'[r].sid, reqs'[r].uid) =>
              /\ reqs'[r].pc = "done" /\ reqs'[r].raised
              /\ reqs'[r].err = SessionNotFoundMsg
              /\ session' = session /\ refinements' = refinements /\ usage' = usage
         /\ reqs'[r].op = "get" =>
              /\ reqs'[r].pc = "done"
              /\ reqs'[r].raised = NotOwned(reqs'[r].sid, reqs'[r].uid)
              /\ session' = session /\ refinements' = refinements /\ usage' = usage]_vars

\* a stranger has answered a question of an existing session that is
\* awaiting answers, and was turned away
C25_Witness ==
  \E r \in ReqIds :
    /\ reqs[r].op = "submit" /\ reqs[r].pc = "done" /\ reqs[r].raised
    /\ reqs[r].err = SessionNotFoundMsg
    /\ reqs[r].sid \in SessionIds
    /\ session[reqs[r].sid].exists
    /\ session[reqs[r].sid].userId # reqs[r].uid
    /\ session[reqs[r].sid].status = AWAITING_REFINEMENTS
    /\ FindRefinement(refinements[reqs[r].sid], reqs[r].qi) # 0

\* C25 (further witnesses): getSession by a stranger, and both calls for an
\* id that no session has
C25_StrangerGets ==
  \E r \in ReqIds :
    /\ reqs[r].op = "get" /\ reqs[r].pc = "done" /\ reqs[r].raised
    /\ reqs[r].err = SessionNotFoundMsg
    /\ reqs[r].sid \in SessionIds
    /\ session[reqs[r].sid].exists
    /\ session[reqs[r].sid].userId # reqs[r].uid
C25_NoSuchSession ==
  \E r \in ReqIds :
    /\ reqs[r].op \in {"get", "submit"} /\ reqs[r].pc = "done" /\ reqs[r].raised
    /\ reqs[r].err = SessionNotFoundMsg
    /\ reqs[r].sid = NoSuchId
    /\ \E s \in SessionIds : session[s].exists

\* the indices of a session's refinements, in creation order
IndicesOf(refs) == [i \in DOMAIN refs |-> refs[i].questionIndex]
\* pairwise distinct, and exactly 0..N-1
IndicesRegular(refs) ==
  /\ \A i, j \in DOMAIN refs : i # j => refs[i].questionIndex # refs[j].questionIndex
  /\ {refs[i].questionIndex : i \in DOMAIN refs} = 0..(Len(refs) - 1)
\* a step that leaves the indices of the rows that exist as they are
IndicesKept(s) ==
  /\ Len(refinements'[s]) >= Len(refinements[s])
  /\ \A i \in DOMAIN refinements[s] :
       refinements'[s][i].questionIndex = refinements[s][i].questionIndex

\* C26: in every reachable state a session has no refinements or its N
\* refinements have pairwise distinct indices that are exactly 0..N-1,
\* whatever question list the provider returned; and no step changes the
\* index of a refinement that exists.
C26_IndicesZeroToN ==
  [][\A s \in SessionIds : IndicesRegular(refinements'[s]) /\ IndicesKept(s)]_vars

\* the orders in which n rows can be listed
Orders(n) == {p \in [1..n -> 1..n] : \A i, j \in 1..n : i # j => p[i] # p[j]}
\* a prompt that lists, after the initial prompt and the marker, the
\* question and answer of each answered refinement in increasing index order
IndexOrdered(prompt, refs) ==
  \E p \in Orders(Len(refs)) :
    LET rows == [i \in DOMAIN refs |-> refs[p[i]]]
    IN /\ \A i, j \in DOMAIN rows :
            i < j => rows[i].questionIndex <= rows[j].questionIndex
       /\ prompt = << InitialPrompt, RefinedMarker >>
                     \o QuestionsAndAnswers(rows)

\* C27: the refined prompt that submitRefinementAnswer persists is the
\* initial prompt, the marker, and the question/answer pairs of the session's
\* refinements in increasing index order, whatever the order of the rows it
\* was computed from.
C27_RefinedPromptIndexOrdered ==
  [][\A s \in SessionIds :
       session'[s].refinedPrompt # session[s].refinedPrompt
         => IndexOrdered(session'[s].refinedPrompt, refinements[s])]_vars

\* C28: FAILED is absorbing: once a session's status is FAILED no step of
\* any call changes it, and no call enters runResearch for that session.
C28_FailedAbsorbing ==
  [][\A s \in SessionIds :
       session[s].status = FAILED =>
         /\ session'[s].status = FAILED
         /\ \A r \in ReqIds :
              (reqs'[r].sid = s /\ reqs'[r].pc = "rr_status")
                => reqs[r].pc = "rr_status"]_vars

\* C29: once runResearch has persisted the results with status COMPLETED,
\* no step changes the status or sets errorMessage: a failure of the report
\* generation or of persisting the report reference leaves the session
\* COMPLETED with no errorMessage, and COMPLETED is terminal.
C29_CompletedStays ==
  [][\A s \in SessionIds :
       session[s].status = COMPLETED =>
         /\ session'[s].status = COMPLETED
         /\ session'[s].errorMessage = session[s].errorMessage]_vars

\* C29 (report failure only): the steps of a call whose report generation
\* failed leave the status COMPLETED and errorMessage unset
C29_ReportFailureNotFatal ==
  [][\A r \in ReqIds :
       (reqs[r].pc = "rr_catch" /\ reqs[r].err = PdfErrorMsg /\ reqs'[r] # reqs[r])
         => /\ session'[reqs[r].sid].status = COMPLETED
            /\ session'[reqs[r].sid].errorMessage = NoMsg]_vars

\* the persisted data of a session as the snapshot the state machine reads
\* (the refined prompt, a text that is never empty once set, as a string)
PersistedSnapshot(ses, refs) ==
  [refinements |-> refs,
   refinedPrompt |-> IF ses.refinedPrompt = NoPrompt THEN NULL ELSE "some text",
   openaiResult |-> ses.openaiResult,
   geminiResult |-> ses.geminiResult]

\* C30: every status change the orchestrator persists is legal for the state
\* machine: when a write replaces status from by to, canTransition(from, to)
\* is true on the session data persisted with that write.
C30_StatusWritesLegal ==
  [][\A s \in SessionIds :
       (session[s].exists /\ session'[s].status # session[s].status)
         => canTransition(session[s].status, session'[s].status,
                          PersistedSnapshot(session'[s], refinements'[s]))]_vars

\* the rows after prisma.refinement.update of the row found for questionIndex
AnswerRow(refs, questionIndex) ==
  LET k == FindRefinement(refs, questionIndex)
  IN IF k = 0 THEN refs ELSE [refs EXCEPT ![k].answer = AnswerText]

\* the orders in which the store serves the update and the reload of two
\* requests: the first occurrence of a request is its update, the second its
\* reload
Interleavings ==
  {o \in [1..4 -> ReqIds] : \A r \in ReqIds : Cardinality({i \in 1..4 : o[i] = r}) = 2}

NotServed == [r \in ReqIds |-> [updated |-> FALSE, snap |-> << >>]]

\* what each request has done and read after the store served the operations
\* in this order, starting from the rows refs
RECURSIVE Serve(_, _, _, _)
Serve(order, refs, qi, seen) ==
  IF order = << >> THEN seen
  ELSE LET r == Head(order)
       IN IF ~seen[r].updated
          THEN Serve(Tail(order), AnswerRow(refs, qi[r]), qi,
                     [seen EXCEPT ![r].updated = TRUE])
          ELSE Serve(Tail(order), refs, qi, [seen EXCEPT ![r].snap = refs])

\* the pairs of question indices that reach the last two unanswered rows
LastTwo(refs) ==
  {qi \in [ReqIds -> QuestionIndices] :
     /\ qi[1] < qi[2]
     /\ \A r \in ReqIds : FindRefinement(refs, qi[r]) # 0
     /\ {i \in DOMAIN refs : ~Truthy(refs[i].answer)}
          = {FindRefinement(refs, qi[r]) : r \in ReqIds}}

\* a submitRefinementAnswer request that has reloaded the session
Reloaded(rec) ==
  rec.op = "submit" /\ ~(rec.pc \in {"idle", "sa_reload"}) /\ rec.snap # << >>

\* C31 as stated: two simultaneous requests that answer the last two
\* unanswered questions of a session can interleave so that both observe
\* "not all answered" on their reload (and so neither invokes runResearch).
C31_BothCanObserveNotAllAnswered ==
  \A s \in SessionIds : \A qi \in LastTwo(refinements[s]) :
    \E order \in Interleavings :
      LET seen == Serve([i \in 1..4 |-> order[i]], refinements[s], qi, NotServed)
      IN \A r \in ReqIds : ~AllAnswered(seen[r].snap)

\* C31 (amended): when every refinement of a session is answered and two
\* overlapping submitRefinementAnswer requests have both reloaded it, at least
\* one of them observed "all answered", and that one goes on to runResearch.
C31_OneObservesAllAnswered ==
  \A s \in SessionIds :
    (/\ AllAnswered(refinements[s])
     /\ \A r \in ReqIds : Reloaded(reqs[r]) /\ reqs[r].sid = s)
      => \E r \in ReqIds :
           /\ AllAnswered(reqs[r].snap)
           /\ reqs[r].pc # "sa_progress"

\* the two requests overlap and answer the last two questions: the first
\* has observed "not all answered" and has not written the status yet, the
\* second has observed "all answered"
C31_Witness ==
  /\ AllAnswered(refinements["s1"])
  /\ Reloaded(reqs[1]) /\ Reloaded(reqs[2])
  /\ reqs[1].qi # reqs[2].qi
  /\ reqs[1].pc = "sa_progress" /\ ~AllAnswered(reqs[1].snap)
  /\ reqs[2].pc = "sa_complete" /\ AllAnswered(reqs[2].snap)

\* both requests can observe "all answered", and then both go on to runResearch
C31_BothObserveAllAnswered ==
  /\ reqs[1].op = "submit" /\ reqs[2].op = "submit"
  /\ reqs[1].qi # reqs[2].qi
  /\ reqs[1].pc = "sa_complete" /\ reqs[2].pc = "sa_complete"

\* no request is still running
NoneRunning == \A r \in ReqIds : reqs[r].pc \in {"idle", "done"}

\* every refinement answered, nothing running, status REFINEMENTS_IN_PROGRESS
Parked(s) ==
  /\ session[s].exists
  /\ AllAnswered(refinements[s])
  /\ NoneRunning
  /\ session[s].status = REFINEMENTS_IN_PROGRESS

\* runResearch has come to its end for the session: results or a failure
\* are persisted
ResearchEnded(s) ==
  \/ session[s].openaiResult # NULL /\ session[s].geminiResult # NULL
  \/ session[s].errorMessage # NoMsg

\* C32: concurrent submitRefinementAnswer requests can leave a session parked
\* (the witness: every refinement answered, no request running, status
\* REFINEMENTS_IN_PROGRESS), and a parked session does not advance by itself:
\* until a new call is issued its status stays REFINEMENTS_IN_PROGRESS. The
\* session is parked by a late status write: the research of the request
\* that observed "all answered" has ended by then.
C32_ParkedStaysParked ==
  [][\A s \in SessionIds :
       Parked(s) => /\ ResearchEnded(s)
                    /\ calls' = calls => Parked(s)']_vars

\* the parked session, reached with two overlapping answers
C32_Witness ==
  /\ Parked("s1")
  /\ calls = 3
  /\ reqs[1].op = "submit" /\ reqs[2].op = "submit"
  /\ reqs[1].qi # reqs[2].qi

\* one call at a time never parks a session
C32_SequentialNeverParked == \A s \in SessionIds : ~Parked(s)

\* this step is the first provider's call of request r made for user u
\* (in startSession or in the fan-out of runResearch), and whether it returned
OpenAICallStep(r, u) ==
  \/ /\ reqs[r].pc = "ss_call" /\ reqs'[r].pc # "ss_call"
     /\ reqs[r].uid = u
  \/ /\ reqs[r].pc = "rr_fanout" /\ reqs[r].oOut = Pending /\ reqs'[r].oOut # Pending
     /\ session[reqs[r].sid].userId = u
OpenAICallReturned(r) ==
  IF reqs[r].pc = "ss_call" THEN reqs'[r].pc # "ss_catch"
  ELSE reqs'[r].oOut.status = "fulfilled"

\* this step is the second provider's call of request r made for user u
GeminiCallStep(r, u) ==
  /\ reqs[r].pc = "rr_fanout" /\ reqs[r].gOut = Pending /\ reqs'[r].gOut # Pending
  /\ session[reqs[r].sid].userId = u
GeminiCallReturned(r) == reqs'[r].gOut.status = "fulfilled"

\* C33: usage is recorded exactly once per successful provider call and
\* never for a failed one: in every step, the day and month counters of a
\* provider for a user rise by 1 when the step is a call of that provider for
\* that user that returned, and do not change otherwise (a failed call, a
\* call of the other provider whatever its outcome, any other step).
C33_RecordedOncePerSuccess ==
  [][\A u \in Users :
       LET o == Count(\E r \in ReqIds : OpenAICallStep(r, u) /\ OpenAICallReturned(r))
           g == Count(\E r \in ReqIds : GeminiCallStep(r, u) /\ GeminiCallReturned(r))
       IN /\ usage'[u].openaiRequestsToday = usage[u].openaiRequestsToday + o
          /\ usage'[u].openaiRequestsMonth = usage[u].openaiRequestsMonth + o
          /\ usage'[u].geminiRequestsToday = usage[u].geminiRequestsToday + g
          /\ usage'[u].geminiRequestsMonth = usage[u].geminiRequestsMonth + g]_vars

\* a direct-result session of u1, who had no usage: the first call was
\* recorded, then in the fan-out the first provider failed and the second
\* succeeded: one request of each provider is on record
C33_Witness ==
  /\ reqs[1].op = "start" /\ reqs[1].pc = "rr_fanout"
  /\ reqs[1].invoked = 2
  /\ reqs[1].oOut.status = "rejected"
  /\ reqs[1].gOut.status = "fulfilled"
  /\ usage["u1"].openaiRequestsToday = 1 /\ usage["u1"].openaiRequestsMonth = 1
  /\ usage["u1"].geminiRequestsToday = 1 /\ usage["u1"].geminiRequestsMonth = 1

\* C34: when the owner calls submitRefinementAnswer with a question index
\* that matches no refinement of the session, the error is raised to the
\* caller and the session is persisted with status FAILED and errorMessage
\* set.
C34_UnknownIndexFails ==
  \A r \in ReqIds :
    (/\ reqs[r].op = "submit" /\ reqs[r].pc = "done"
     /\ FindSession(reqs[r].sid, reqs[r].uid)
     /\ FindRefinement(refinements[reqs[r].sid], reqs[r].qi) = 0)
      => /\ reqs[r].raised
         /\ reqs[r].err = RefinementNotFoundMsg
         /\ session[reqs[r].sid].status = FAILED
         /\ session[reqs[r].sid].errorMessage # NoMsg

\* the part of C34 that the code does: the error is raised to the caller
C34_UnknownIndexRaised ==
  \A r \in ReqIds :
    (/\ reqs[r].op = "submit" /\ reqs[r].pc = "done"
     /\ FindSession(reqs[r].sid, reqs[r].uid)
     /\ FindRefinement(refinements[reqs[r].sid], reqs[r].qi) = 0)
      => reqs[r].raised /\ reqs[r].err = RefinementNotFoundMsg

\* C35: the report fetch is read-only and serves an artifact only for a
\* completed session: a request that was served a report is the owner's, for
\* a session whose status is COMPLETED, and the fetch changes nothing in the
\* store.
C35_ReportOnlyWhenCompleted ==
  /\ \A r \in ReqIds :
        (reqs[r].op = "report" /\ reqs[r].served)
          => /\ FindSession(reqs[r].sid, reqs[r].uid)
             /\ session[reqs[r].sid].status = COMPLETED

\* the part of C35 that the code does: the fetch never modifies the store,
\* and a report is served only to the owner and only with both results set
C35_ReportReadOnly ==
  [][\A r \in ReqIds :
       (reqs'[r].op = "report" /\ reqs[r].op # "report")
         => /\ session' = session /\ refinements' = refinements /\ usage' = usage
            /\ reqs'[r].served
                 => /\ FindSession(reqs'[r].sid, reqs'[r].uid)
                    /\ Truthy(session[reqs'[r].sid].openaiResult)
                    /\ Truthy(session[reqs'[r].sid].geminiResult)]_vars

\* in this step request r starts the provider fan-out of runResearch
FanOutStarts(r) == reqs[r].pc # "rr_fanout" /\ reqs'[r].pc = "rr_fanout"
\* in this step request r persists the results of its fan-out
ResultsWritten(r) == reqs[r].pc = "rr_fanout" /\ reqs'[r].pc = "rr_pdf"
\* request r is in runResearch, at the fan-out or past it
InFanOutOrPast(rec) == rec.pc \in {"rr_fanout", "rr_pdf", "rr_email"}

\* C36: research runs at most once per session: the provider fan-out of
\* runResearch is started only for a session that has no results and no other
\* request at or past the fan-out, and results are persisted only over a
\* session without results.
C36_ResearchAtMostOnce ==
  [][\A r \in ReqIds :
       /\ FanOutStarts(r)
            => /\ session[reqs[r].sid].openaiResult = NULL
               /\ session[reqs[r].sid].geminiResult = NULL
               /\ \A q \in ReqIds \ {r} :
                     ~(InFanOutOrPast(reqs[q]) /\ reqs[q].sid = reqs[r].sid)
       /\ ResultsWritten(r)
            => /\ session[reqs[r].sid].openaiResult = NULL
               /\ session[reqs[r].sid].geminiResult = NULL]_vars

\* the concurrent case of C36 alone: no two requests are in the fan-out of
\* one session at the same time
C36_OneFanOutAtATime ==
  \A r, q \in ReqIds :
    (r # q /\ reqs[r].pc = "rr_fanout" /\ reqs[q].pc = "rr_fanout")
      => reqs[r].sid # reqs[q].sid

\* the statuses a session rests in between calls
RestingStatuses ==
  {AWAITING_REFINEMENTS, REFINEMENTS_IN_PROGRESS, COMPLETED, FAILED}

\* C37: every startSession and every submitRefinementAnswer call that has
\* ended (returned or raised) on a session of the caller leaves the session
\* in a resting status, never in CREATED, REFINEMENTS_COMPLETE or
\* RUNNING_RESEARCH, whatever the provider's response.
C37_EndsInRestingStatus ==
  \A r \in ReqIds :
    (/\ reqs[r].op \in {"start", "submit"}
     /\ reqs[r].pc = "done"
     /\ FindSession(reqs[r].sid, reqs[r].uid))
      => session[reqs[r].sid].status \in RestingStatuses

\* the other half of C37: a call in flight comes to its end
C37_Terminates == (reqs[1].pc # "idle") ~> (reqs[1].pc = "done")

\* C37 for startSession alone, when the provider's response carries
\* questions or a result
C37_StartEndsResting ==
  \A r \in ReqIds :
    (/\ reqs[r].op = "start" /\ reqs[r].pc = "done"
     /\ (reqs[r].resp.kind # "none" \/ reqs[r].raised))
      => session[reqs[r].sid].status \in RestingStatuses

\* the unanswered rows that submitRefinementAnswer reaches by their index
ReachableUnanswered(refs) ==
  {i \in DOMAIN refs :
     ~Truthy(refs[i].answer) /\ FindRefinement(refs, refs[i].questionIndex) = i}

\* C38: no refinement deadlock: every session whose status is
\* AWAITING_REFINEMENTS or REFINEMENTS_IN_PROGRESS has, between calls, at least
\* one unanswered refinement that submitRefinementAnswer can reach by its
\* index, for every question list the provider may return.
C38_NoRefinementDeadlock ==
  \A s \in SessionIds :
    (/\ NoneRunning
     /\ session[s].status \in {AWAITING_REFINEMENTS, REFINEMENTS_IN_PROGRESS})
      => ReachableUnanswered(refinements[s]) # {}

\* C38 for the question lists 0..n-1 with n > 0 alone
C38_RegularListsNoDeadlock ==
  \A s \in SessionIds :
    (/\ NoneRunning
     /\ session[s].status \in {AWAITING_REFINEMENTS, REFINEMENTS_IN_PROGRESS}
     /\ refinements[s] # << >>
     /\ IndicesRegular(refinements[s]))
      => ReachableUnanswered(refinements[s]) # {}

\* the deadlock of a list with a repeated index: the first row is answered,
\* the second can never be
C38_DuplicateIndexStuck ==
  /\ session["s1"].status = REFINEMENTS_IN_PROGRESS
  /\ Len(refinements["s1"]) = 2
  /\ refinements["s1"][1].questionIndex = refinements["s1"][2].questionIndex
  /\ ReachableUnanswered(refinements["s1"]) = {}

\* C39: canTransition and getNextStates define the same relation: the value
\* canTransition(from, to, session) returned is true exactly when to is among
\* getNextStates(from, session), and the states getNextStates(from, session)
\* returned are exactly those to which canTransition allows a transition.
C39_SameRelation ==
  /\ smOut.done =>
        (smOut.value <=> smIn.to \in Elems(getNextStates(smIn.from, smIn.session)))
  /\ nsOut.done =>
        \A to \in ResearchSessionStatus :
          to \in Elems(nsOut.value) <=> canTransition(smIn.from, to, smIn.session)

\* both sides at work: a forward edge whose condition is false, refused by
\* canTransition
C39_Witness ==
  /\ smOut.done /\ ~smOut.value
  /\ smIn.from = RUNNING_RESEARCH /\ smIn.to = COMPLETED
  /\ smIn.session.openaiResult = EMPTY
  /\ smIn.session.geminiResult = "some text"

\* the transition to FAILED, allowed by both from every state
C39_FailedInBoth ==
  /\ nsOut.done
  /\ smIn.from = COMPLETED
  /\ nsOut.value = << COMPLETED, FAILED >>

====
